---------------------------- MODULE Spec2Model ----------------------------
(***************************************************************************)
(* Model of the WeChat group-chat pipeline of jackynews:                   *)
(*   extract-date.ts      (src/wechat_data/scripts/extract-date.ts 1-175)  *)
(*   analyze-wechat.ts    (same file, 177-839)                             *)
(*   extract-from-db.ts   (src/unnamed/part_002)                           *)
(*   generate-ops-report.ts (src/wechat_data/scripts/generate-ops-report.ts)*)
(*                                                                         *)
(* Strings are sequences of characters; a character is a one-letter string *)
(* for ASCII and a pinyin word for a CJK character ("qun" "cheng" "yuan"   *)
(* spell the three characters of the group-member placeholder).  Message   *)
(* type labels are the English names of the Chinese labels of the code.    *)
(***************************************************************************)
EXTENDS Integers, Sequences, FiniteSets, TLC

VARIABLES
    tzOffset,      \* seconds the machine's local time is ahead of UTC
    now,           \* Date.now() of the machine, in abstract ticks
    contacts,      \* contact.db, table contact: username -> [remark, nick_name]
    userAliases,   \* config/user-aliases.json: username -> alias
    groupTable,    \* message_0.db, table GROUP_TABLE (schema read by extract-date.ts)
    msgTables,     \* message_0.db, its tables in the order of sqlite_master: [name, ok, rows]
    chathistory,   \* chathistory/*.json : file name -> messages of the file
    reports,       \* reports/ : path -> content
    lookups,       \* history: keys the last extraction passed to contacts.get / userAliases.get
    lastExtract,   \* history: what the last extraction run did
    run,           \* the analyze-wechat.ts / generate-ops-report.ts process
    markdownContent, \* argument of generateHtmlReport
    html,          \* result of generateHtmlReport
    cwd,           \* process.cwd() of update-journal.ts: its date-like substrings, in order
    journal,       \* journal/ : file name -> content
    chatMessages,  \* messages, the argument of preprocessMessages
    dateFilter,    \* targetDate, the argument of preprocessMessages; 0 when not given
    keptMessages,  \* result of preprocessMessages, argument of analyzeUsers
    userMap,       \* result of analyzeUsers: username -> UserStats
    baseImage,     \* subtitle tool: the loaded image, or NoImage
    subtitleText,  \* subtitle tool: value of the textarea, a sequence of lines
    cropHeightInput, \* subtitle tool: value of the crop-height input
    canvas,        \* subtitle tool: the canvas element and what was drawn on it
    debounceTimer, \* subtitle tool: the timeout id debouncedDraw stored last; 0 when undefined
    placeholder,   \* subtitle tool: style.display of the placeholder
    downloadBtn,   \* subtitle tool: the download button
    imageInput,    \* subtitle tool: the file chosen in the file input, or NoImage
    loads,         \* subtitle tool: the files whose FileReader / Image load is under way
    timers,        \* subtitle tool: the ids of the timeouts of the page that are pending
    sinceInput     \* history: what happened since the last input event

pipelineVars == <<tzOffset, now, contacts, userAliases, groupTable, msgTables,
                  chathistory, reports, lookups, lastExtract, run, markdownContent, html>>
journalVars == <<cwd, journal>>
analysisVars == <<chatMessages, dateFilter, keptMessages, userMap>>
subtitleVars == <<baseImage, subtitleText, cropHeightInput, canvas, debounceTimer,
                  placeholder, downloadBtn, imageInput, loads, timers, sinceInput>>

vars == <<pipelineVars, journalVars, analysisVars, subtitleVars>>

(***************************************************************************)
(* Bounds of the model.                                                    *)
(***************************************************************************)
MaxContacts == 1     \* rows of the contact table
MaxAliases == 1      \* entries of user-aliases.json
MaxRows == 2         \* rows of a message table
MaxDay == 2          \* target dates are days 1..MaxDay after the epoch
MaxStamp == 2        \* Date.now() ticks
MaxRuns == 2         \* runs of analyze-wechat.ts / generate-ops-report.ts
MaxSegments == 3     \* segments (text, tags, blocks) of a markdown report

Dates == 1..MaxDay

(***************************************************************************)
(* Characters and strings.                                                 *)
(***************************************************************************)
Lower == {"a", "b", "c", "d", "e", "i", "l", "o", "w", "x", "z"}
Upper == {"D", "W", "X", "I"}
Digits == {"0", "1"}

IsAlpha(c) == c \in Lower \cup Upper          \* [a-zA-Z]
IsAlnum(c) == IsAlpha(c) \/ c \in Digits      \* [a-zA-Z0-9]
IsWord(c) == IsAlnum(c) \/ c = "_"            \* [A-Za-z0-9_]

ToLower(c) ==
    CASE c = "D" -> "d" [] c = "W" -> "w" [] c = "X" -> "x" [] c = "I" -> "i"
      [] OTHER -> c

\* s has p at position i (1-based)
HasAt(s, i, p) ==
    /\ i >= 1
    /\ i + Len(p) - 1 <= Len(s)
    /\ \A k \in 1..Len(p) : s[i + k - 1] = p[k]

\* as HasAt, ignoring case (the i flag)
HasAtCI(s, i, p) ==
    /\ i >= 1
    /\ i + Len(p) - 1 <= Len(s)
    /\ \A k \in 1..Len(p) : ToLower(s[i + k - 1]) = ToLower(p[k])

\* String.prototype.includes
Includes(s, p) == \E i \in 1..(Len(s) + 1) : HasAt(s, i, p)

RECURSIVE Repeat(_, _)
Repeat(s, n) == IF n <= 0 THEN <<>> ELSE s \o Repeat(s, n - 1)

WxidPrefix == <<"w", "x", "i", "d", "_">>
GroupMember == <<"qun", "cheng", "yuan">>     \* the placeholder display name

LongIdLen == 15

\* isWxidFormat: !name, /^[Dd]?wxid_/i, /^[A-Za-z0-9_]{15,}$/
IsWxidFormat(name) ==
    \/ name = <<>>
    \/ HasAtCI(name, 1, WxidPrefix)
    \/ (Len(name) >= 1 /\ ToLower(name[1]) = "d" /\ HasAtCI(name, 2, WxidPrefix))
    \/ (Len(name) >= LongIdLen /\ \A i \in 1..Len(name) : IsWord(name[i]))

\* end of the longest run of [a-zA-Z0-9] that starts at position i (i - 1 if none)
RECURSIVE AlnumRunEnd(_, _)
AlnumRunEnd(s, i) ==
    IF i <= Len(s) /\ IsAlnum(s[i]) THEN AlnumRunEnd(s, i + 1) ELSE i - 1

\* where /([Dd]?wxid_[a-zA-Z0-9]+)/ can match when tried at position i:
\* the position of the "w", or 0
WxidAt(s, i) ==
    IF /\ s[i] \in {"D", "d"}
       /\ HasAt(s, i + 1, WxidPrefix)
       /\ AlnumRunEnd(s, i + 6) >= i + 6
    THEN i + 1
    ELSE IF HasAt(s, i, WxidPrefix) /\ AlnumRunEnd(s, i + 5) >= i + 5
         THEN i
         ELSE 0

\* senderUsername.match(/([Dd]?wxid_[a-zA-Z0-9]+)/): group 1 of the leftmost
\* match, <<>> when there is none
WxidMatch(s) ==
    LET starts == {i \in 1..Len(s) : WxidAt(s, i) # 0}
    IN  IF starts = {} THEN <<>>
        ELSE LET i == CHOOSE j \in starts : \A k \in starts : j <= k
                 w == WxidAt(s, i)
             IN  SubSeq(s, i, AlnumRunEnd(s, w + 5))

\* senderUsername.match(/([a-zA-Z][a-zA-Z0-9_]{3,})$/): group 1 of the leftmost
\* match, <<>> when there is none
UsernameMatch(s) ==
    LET starts == {i \in 1..Len(s) :
                      /\ IsAlpha(s[i])
                      /\ Len(s) - i >= 3
                      /\ \A k \in (i + 1)..Len(s) : IsWord(s[k])}
    IN  IF starts = {} THEN <<>>
        ELSE SubSeq(s, CHOOSE j \in starts : \A k \in starts : j <= k, Len(s))

\* cleanUsername of extract-date.ts
CleanUsername(senderUsername) ==
    LET w == WxidMatch(senderUsername)
        u == UsernameMatch(senderUsername)
    IN  IF w # <<>> THEN w ELSE IF u # <<>> THEN u ELSE senderUsername

\* position of the first ":" or newline of s, Len(s) + 1 if none
RECURSIVE FirstStop(_, _)
FirstStop(s, i) ==
    IF i > Len(s) \/ s[i] \in {":", "\n"} THEN i ELSE FirstStop(s, i + 1)

\* content.match(/^([^:\n]*):\n/) and content.replace(/^[^:\n]*:\n/, ''): the
\* split that also accepts an empty sender
ParseGroupMessageStar(raw) ==
    LET k == FirstStop(raw, 1)
    IN  IF HasAt(raw, k, <<":", "\n">>)
        THEN [senderUsername |-> SubSeq(raw, 1, k - 1),
              content |-> SubSeq(raw, k + 2, Len(raw))]
        ELSE [senderUsername |-> <<>>, content |-> raw]

\* content.match(/^([^:\n]+):\n/) and content.replace(/^[^:\n]+:\n/, '')
ParseGroupMessage(raw) ==
    LET k == FirstStop(raw, 1)
    IN  IF k > 1 /\ HasAt(raw, k, <<":", "\n">>)
        THEN [senderUsername |-> SubSeq(raw, 1, k - 1),
              content |-> SubSeq(raw, k + 2, Len(raw))]
        ELSE [senderUsername |-> <<>>, content |-> raw]

(***************************************************************************)
(* Contacts, aliases and the three-layer display name.  A missing row, a   *)
(* NULL column and an empty string are all falsy in the code and are all   *)
(* the empty string here.                                                  *)
(***************************************************************************)
NoContact == [remark |-> <<>>, nick_name |-> <<>>]

HasContact(cts, k) == k \in DOMAIN cts
GetAlias(als, k) == IF k \in DOMAIN als THEN als[k] ELSE <<>>

\* the other order of the two contact fields: nick_name before remark
ContactNameNickFirst(contact) ==
    IF contact.nick_name # <<>> THEN contact.nick_name ELSE contact.remark

\* contact?.remark || contact?.nick_name
ContactName(contact) ==
    IF contact.remark # <<>> THEN contact.remark ELSE contact.nick_name

\* the last layer without the isWxidFormat filter: u || GroupMember
FallbackNameUnfiltered(u) == IF u # <<>> THEN u ELSE GroupMember

\* isWxidFormat(u) ? GroupMember : (u || GroupMember)
FallbackName(u) ==
    IF IsWxidFormat(u) THEN GroupMember ELSE IF u # <<>> THEN u ELSE GroupMember

\* extract-date.ts: contacts.get(cleanUsername) || contacts.get(senderUsername)
ContactOfDate(cts, clean, senderUsername) ==
    IF HasContact(cts, clean) THEN cts[clean]
    ELSE IF HasContact(cts, senderUsername) THEN cts[senderUsername]
    ELSE NoContact

\* extract-date.ts: userAliases.get(cleanUsername) || userAliases.get(senderUsername)
AliasOfDate(als, clean, senderUsername) ==
    IF GetAlias(als, clean) # <<>> THEN GetAlias(als, clean)
    ELSE GetAlias(als, senderUsername)

\* displayName of extract-date.ts
DisplayNameDate(cts, als, senderUsername) ==
    LET clean == CleanUsername(senderUsername)
        fromContact == ContactName(ContactOfDate(cts, clean, senderUsername))
        fromAlias == AliasOfDate(als, clean, senderUsername)
    IN  IF fromContact # <<>> THEN fromContact
        ELSE IF fromAlias # <<>> THEN fromAlias
        ELSE FallbackName(clean)

\* extract-from-db.ts: contacts.get(senderUsername)
ContactOfDb(cts, senderUsername) ==
    IF HasContact(cts, senderUsername) THEN cts[senderUsername] ELSE NoContact

\* displayName of extract-from-db.ts
DisplayNameDb(cts, als, senderUsername) ==
    LET fromContact == ContactName(ContactOfDb(cts, senderUsername))
        fromAlias == GetAlias(als, senderUsername)
    IN  IF fromContact # <<>> THEN fromContact
        ELSE IF fromAlias # <<>> THEN fromAlias
        ELSE FallbackName(senderUsername)

\* the keys extract-date.ts passes to contacts.get and userAliases.get for one
\* row (|| evaluates its right side only when the left side is falsy)
LookupsDate(cts, als, senderUsername) ==
    LET clean == CleanUsername(senderUsername)
    IN  [contact |-> {clean} \cup
                     (IF HasContact(cts, clean) THEN {} ELSE {senderUsername}),
         alias |-> IF ContactName(ContactOfDate(cts, clean, senderUsername)) # <<>>
                   THEN {}
                   ELSE {clean} \cup
                        (IF GetAlias(als, clean) # <<>> THEN {} ELSE {senderUsername})]

\* the keys extract-from-db.ts passes to contacts.get and userAliases.get
LookupsDb(cts, als, senderUsername) ==
    [contact |-> {senderUsername},
     alias |-> IF ContactName(ContactOfDb(cts, senderUsername)) # <<>> THEN {}
               ELSE {senderUsername}]

(***************************************************************************)
(* Time.  A target date YYYY-MM-DD is the number of its day since the      *)
(* epoch; a formatted local time is [date, tod] (day number and second of  *)
(* the day) of the machine's local clock.                                  *)
(***************************************************************************)
SecondsPerDay == 86400
MillisPerDay == 86400000
MillisPerSecond == 1000

\* new Date(targetDate).getTime() / 1000: a date-only string is parsed as
\* midnight UTC
ParseDate(d, tz) == d * SecondsPerDay

\* formatTime (extract-date.ts): getFullYear/getMonth/getDate/getHours/... are
\* local-time getters
FormatTime(ts, tz) ==
    [date |-> (ts + tz) \div SecondsPerDay, tod |-> (ts + tz) % SecondsPerDay]

\* formatTimestamp (extract-from-db.ts), ts in milliseconds
FormatTimestamp(ms, tz) ==
    [date |-> ((ms \div MillisPerSecond) + tz) \div SecondsPerDay,
     tod |-> ((ms \div MillisPerSecond) + tz) % SecondsPerDay]

(***************************************************************************)
(* Message types.                                                          *)
(***************************************************************************)
\* typeMap[msg.local_type] || unknown(local_type), extract-date.ts
TypeLabelDate(t) ==
    CASE t = 1 -> "text" [] t = 3 -> "image" [] t = 34 -> "voice"
      [] t = 47 -> "emoji" [] t = 49 -> "quote"
      [] t = 10000 -> "system" [] t = 10002 -> "recall"
      [] OTHER -> "unknown(" \o ToString(t) \o ")"

\* getMessageType, extract-from-db.ts
GetMessageType(t) ==
    CASE t = 1 -> "text" [] t = 3 -> "image" [] t = 34 -> "voice"
      [] t = 42 -> "card" [] t = 43 -> "video"
      [] t = 47 -> "emoji" [] t = 48 -> "location" [] t = 49 -> "quote"
      [] t = 10000 -> "system" [] t = 10002 -> "recall"
      [] OTHER -> "unknown(" \o ToString(t) \o ")"

(***************************************************************************)
(* Files of chathistory/.  A name is <<"fresh", date>> for                 *)
(* ..._fresh_DATE.json and <<"stamp", n>> for ..._[timestamp].json (the    *)
(* EchoTrace monthly exports and the output of extract-from-db.ts).  The   *)
(* content is the messages array of the file.                              *)
(***************************************************************************)
NoFiles == [f \in {} |-> <<>>]
NoFile == <<>>

\* fs.appendFileSync(path, data): create or extend
WriteFileAppend(dir, name, data) ==
    [f \in DOMAIN dir \cup {name} |->
        IF f # name THEN dir[f]
        ELSE IF name \in DOMAIN dir THEN dir[name] \o data ELSE data]

\* fs.writeFileSync(path, data): create or overwrite
WriteFile(dir, name, data) ==
    [f \in DOMAIN dir \cup {name} |-> IF f = name THEN data ELSE dir[f]]

\* ORDER BY <key> ASC: the rows by ascending key, rows of equal key in table
\* order
SortByKey(rows, keys) ==
    LET n == Len(rows)
        Rank(i) == 1 + Cardinality({j \in 1..n :
                                      \/ keys[j] < keys[i]
                                      \/ (keys[j] = keys[i] /\ j < i)})
    IN  [p \in 1..n |-> rows[CHOOSE i \in 1..n : Rank(i) = p]]

RECURSIVE Concat(_)
Concat(seqs) == IF seqs = <<>> THEN <<>> ELSE Head(seqs) \o Concat(Tail(seqs))

(***************************************************************************)
(* extract-date.ts                                                         *)
(***************************************************************************)
CreateTimeOf(rows) == [i \in 1..Len(rows) |-> rows[i].create_time]

\* SELECT * FROM GROUP_TABLE WHERE create_time >= ? AND create_time < ?
\* ORDER BY create_time ASC, with startTs and endTs = startTs + 86400
QueryDate(table, d, tz) ==
    LET startTs == ParseDate(d, tz)
        endTs == startTs + SecondsPerDay
        InRange(r) == r.create_time >= startTs /\ r.create_time < endTs
        selected == SelectSeq(table, InRange)
    IN  SortByKey(selected, CreateTimeOf(selected))

\* rows.map(msg => ...) of extract-date.ts, one row
FormatDateRow(cts, als, tz, msg) ==
    LET p == ParseGroupMessage(msg.message_content)
    IN  [localId |-> msg.local_id,
         createTime |-> msg.create_time * MillisPerSecond,
         formattedTime |-> FormatTime(msg.create_time, tz),
         type |-> TypeLabelDate(msg.local_type),
         localType |-> msg.local_type,
         content |-> p.content,
         senderUsername |-> p.senderUsername,
         senderDisplayName |-> DisplayNameDate(cts, als, p.senderUsername)]

Idle == run.pc \in {"idle", "done"}

\* one run of extract-date.ts DATE
ExtractDate(d) ==
    LET rows == QueryDate(groupTable, d, tzOffset)
        formatted == [i \in 1..Len(rows) |->
                         FormatDateRow(contacts, userAliases, tzOffset, rows[i])]
        senders == {formatted[i].senderUsername : i \in 1..Len(rows)}
        looked == [s \in senders |-> LookupsDate(contacts, userAliases, s)]
    IN  /\ Idle
        /\ chathistory' = IF Len(rows) > 0
                          THEN WriteFile(chathistory, <<"fresh", d>>, formatted)
                          ELSE chathistory
        /\ lookups' = [script |-> "extract-date",
                       senders |-> senders,
                       contact |-> UNION {looked[s].contact : s \in senders},
                       alias |-> UNION {looked[s].alias : s \in senders}]
        /\ lastExtract' = [script |-> "extract-date", date |-> d, found |-> Len(rows),
                           file |-> IF Len(rows) > 0 THEN <<"fresh", d>> ELSE NoFile,
                           queried |-> {}, skipped |-> {},
                           ran |-> lastExtract.ran \cup {d},
                           again |-> d \in lastExtract.ran,
                           before |-> chathistory]
        /\ UNCHANGED <<journalVars, analysisVars, subtitleVars,
                       tzOffset, now, contacts, userAliases, groupTable, msgTables,
                       reports, run, markdownContent, html>>

(***************************************************************************)
(* extract-from-db.ts                                                      *)
(***************************************************************************)
TargetGroup == "50381382798@chatroom"

CreateTimeMsOf(rows) == [i \in 1..Len(rows) |-> rows[i].createTime]

MsgPrefix == <<"M", "s", "g", "_">>

\* name LIKE 'Msg_%': LIKE ignores the case of ASCII letters, "_" stands for
\* any one character and "%" for any number of characters
LikeMsg(name) ==
    /\ Len(name) >= Len(MsgPrefix)
    /\ \A i \in 1..Len(MsgPrefix) :
          MsgPrefix[i] = "_" \/ ToLower(name[i]) = ToLower(MsgPrefix[i])

\* SELECT name FROM sqlite_master WHERE type='table' AND name LIKE 'Msg_%'
Discovered(db) == SelectSeq(db, LAMBDA t : LikeMsg(t.name))

\* SELECT ... FROM <table> WHERE talker = ? ORDER BY createTime ASC
TableMessages(t) ==
    LET IsTarget(r) == r.talker = TargetGroup
        selected == SelectSeq(t.rows, IsTarget)
    IN  SortByKey(selected, CreateTimeMsOf(selected))

\* the loop over the tables with the try block around the loop, not in it:
\* the first query that throws ends the collection
AllMessagesUntilFailure(tables) ==
    LET failed == {i \in 1..Len(tables) : ~tables[i].ok}
        last == IF failed = {} THEN Len(tables)
                ELSE (CHOOSE i \in failed : \A j \in failed : i <= j) - 1
    IN  Concat([i \in 1..last |-> TableMessages(tables[i])])

\* the loop over the discovered tables; a table whose query throws is
\* skipped
AllMessages(tables) ==
    LET OfTable(t) == IF t.ok THEN TableMessages(t) ELSE <<>>
    IN  Concat([i \in 1..Len(tables) |-> OfTable(tables[i])])

\* allMessages.filter(m => m.createTime >= startTs && m.createTime < endTs)
FilterDb(all, d, tz) ==
    LET startTs == ParseDate(d, tz) * MillisPerSecond
        endTs == startTs + MillisPerDay
        InRange(m) == m.createTime >= startTs /\ m.createTime < endTs
    IN  SelectSeq(all, InRange)

\* filteredMessages.map(msg => ...) of extract-from-db.ts, one row
FormatDbRow(cts, als, tz, msg) ==
    LET p == ParseGroupMessage(msg.content)
    IN  [localId |-> msg.localId,
         createTime |-> msg.createTime,
         formattedTime |-> FormatTimestamp(msg.createTime, tz),
         type |-> GetMessageType(msg.type),
         localType |-> msg.type,
         content |-> p.content,
         senderUsername |-> p.senderUsername,
         senderDisplayName |-> DisplayNameDb(cts, als, p.senderUsername)]

\* one run of extract-from-db.ts --date=DATE; the output file is named by
\* Date.now()
ExtractFromDb(d) ==
    LET tables == Discovered(msgTables)
        rows == FilterDb(AllMessages(tables), d, tzOffset)
        formatted == [i \in 1..Len(rows) |->
                         FormatDbRow(contacts, userAliases, tzOffset, rows[i])]
        senders == {formatted[i].senderUsername : i \in 1..Len(rows)}
        looked == [s \in senders |-> LookupsDb(contacts, userAliases, s)]
    IN  /\ Idle
        /\ now <= MaxStamp
        /\ now' = now + 1
        /\ chathistory' = IF Len(rows) > 0
                          THEN WriteFile(chathistory, <<"stamp", now>>, formatted)
                          ELSE chathistory
        /\ lookups' = [script |-> "extract-from-db",
                       senders |-> senders,
                       contact |-> UNION {looked[s].contact : s \in senders},
                       alias |-> UNION {looked[s].alias : s \in senders}]
        /\ lastExtract' = [script |-> "extract-from-db", date |-> d, found |-> Len(rows),
                           file |-> IF Len(rows) > 0 THEN <<"stamp", now>> ELSE NoFile,
                           queried |-> {tables[i].name : i \in 1..Len(tables)},
                           skipped |-> {tables[i].name :
                                           i \in {j \in 1..Len(tables) : ~tables[j].ok}},
                           ran |-> lastExtract.ran, again |-> FALSE,
                           before |-> chathistory]
        /\ UNCHANGED <<journalVars, analysisVars, subtitleVars,
                       tzOffset, contacts, userAliases, groupTable, msgTables,
                       reports, run, markdownContent, html>>

ExtractDateRun == \E d \in Dates : ExtractDate(d)
ExtractFromDbRun == \E d \in Dates : ExtractFromDb(d)

(***************************************************************************)
(* The states before any script has run.                                   *)
(***************************************************************************)
IdleRun ==
    [pc |-> "idle", script |-> "none", id |-> 0, date |-> 0, file |-> NoFile,
     messages |-> <<>>, freshAtStart |-> <<>>, available |-> {}, geminiCalls |-> 0,
     thrown |-> "none", pngError |-> "none", exit |-> "none", success |-> FALSE,
     before |-> NoFiles, atPng |-> NoFiles]
NoHtml == [title |-> 0, body |-> <<>>]
NoLookups == [script |-> "none", senders |-> {}, contact |-> {}, alias |-> {}]
NoExtract ==
    [script |-> "none", date |-> 0, found |-> 0, file |-> NoFile,
     queried |-> {}, skipped |-> {}, ran |-> {}, again |-> FALSE, before |-> NoFiles]

\* update-journal.ts has not run
JournalIdle ==
    /\ cwd = <<>>
    /\ journal = NoFiles

\* preprocessMessages and analyzeUsers have not been called
AnalysisIdle ==
    /\ chatMessages = <<>>
    /\ dateFilter = 0
    /\ keptMessages = [called |-> FALSE, messages |-> <<>>]
    /\ userMap = [called |-> FALSE, users |-> NoFiles]

\* the page of the subtitle tool as loaded
NoImage == [width |-> 0, height |-> 0]
NoCanvas == [width |-> 0, height |-> 0, display |-> "none", frames |-> <<>>]
NoInput == [happened |-> FALSE, cancelled |-> FALSE, draws |-> 0]
SubtitleIdle ==
    /\ baseImage = NoImage
    /\ subtitleText = <<>>
    /\ cropHeightInput = 0
    /\ canvas = NoCanvas
    /\ debounceTimer = 0
    /\ placeholder = "flex"
    /\ downloadBtn = [disabled |-> TRUE]
    /\ imageInput = NoImage
    /\ loads = {}
    /\ timers = {}
    /\ sinceInput = NoInput


(***************************************************************************)
(* Specification SpecNames: display-name resolution.  One message of day 1 *)
(* sits in the database under both schemas; the sender, the contact table  *)
(* and the alias file vary.  rows.map handles each row on its own, so one  *)
(* row shows every case of the resolution.                                 *)
(***************************************************************************)
WxidA == <<"w", "x", "i", "d", "_", "a", "1">>
Alice == <<"a", "l", "i", "c", "e">>
Garbage == <<"(", "/">>

SenderCores ==
    { WxidA,
      <<"D">> \o WxidA,
      <<"W", "X", "I", "D", "_", "a">>,
      Alice,
      <<"b", "o", "b">>,
      <<"zhang">>,
      <<"c", "o", "_">> \o WxidA,
      Repeat(<<"a", "0", "_">>, 5),
      SubSeq(Repeat(<<"a", "0", "_">>, 5), 1, 14) }

SenderSamples ==
    SenderCores \cup {Garbage, Garbage \o WxidA, Garbage \o Alice,
                      Garbage \o Repeat(<<"a", "0", "_">>, 5)}

Body == <<"h", "i">>

MessageContents ==
    {s \o <<":", "\n">> \o Body : s \in SenderSamples} \cup {Body}

ContactKeys == {WxidA, Garbage \o WxidA}
NameValues == {<<>>, <<"cha", "li">>, <<"w", "x", "i", "d", "_", "z">>}
ContactRecords == [remark : NameValues, nick_name : NameValues]

ContactTables ==
    UNION {[K -> ContactRecords] : K \in {S \in SUBSET ContactKeys : Cardinality(S) <= MaxContacts}}
AliasTables ==
    UNION {[K -> NameValues] : K \in {S \in SUBSET ContactKeys : Cardinality(S) <= MaxAliases}}

NoonOfDay1 == SecondsPerDay + 12 * 3600

InitNames ==
    /\ tzOffset = 0
    /\ now = 1
    /\ contacts \in ContactTables
    /\ userAliases \in AliasTables
    /\ \E mc \in MessageContents :
          /\ groupTable = << [local_id |-> 1, create_time |-> NoonOfDay1,
                              local_type |-> 1, message_content |-> mc] >>
          /\ msgTables = << [name |-> MsgPrefix \o <<"a">>, ok |-> TRUE,
                             rows |-> << [localId |-> 1,
                                          createTime |-> NoonOfDay1 * MillisPerSecond,
                                          type |-> 1, content |-> mc,
                                          talker |-> TargetGroup] >>] >>
    /\ chathistory = NoFiles
    /\ reports = NoFiles
    /\ lookups = NoLookups
    /\ lastExtract = NoExtract
    /\ run = IdleRun
    /\ markdownContent = <<>>
    /\ html = NoHtml
    /\ JournalIdle
    /\ AnalysisIdle
    /\ SubtitleIdle

\* either extraction script, once
NextExtract ==
    \/ (lastExtract.script = "none" /\ ExtractDateRun)
    \/ (lastExtract.script = "none" /\ ExtractFromDbRun)

SpecNames == InitNames /\ [][NextExtract]_vars

\* every message of every file of chathistory/, with the file it is in
Emitted ==
    UNION {{<<f, chathistory[f][i]>> : i \in 1..Len(chathistory[f])} : f \in DOMAIN chathistory}


\* the script that wrote file f of chathistory/ (no export is present under
\* SpecNames)
WrittenByDate(f) == f[1] = "fresh"

\* the identity a script resolves: extract-date.ts resolves the cleaned
\* username, extract-from-db.ts the parsed sender
IdentityOf(f, m) ==
    IF WrittenByDate(f) THEN CleanUsername(m.senderUsername) ELSE m.senderUsername

\* the contact row a script finds for a message: the row of the identity;
\* extract-date.ts tries the raw sender when the identity has no row
FoundContact(f, m) ==
    IF IdentityOf(f, m) \in DOMAIN contacts THEN contacts[IdentityOf(f, m)]
    ELSE IF WrittenByDate(f) /\ m.senderUsername \in DOMAIN contacts
         THEN contacts[m.senderUsername]
         ELSE NoContact

\* the alias a script finds for a message, <<>> when none is configured
FoundAlias(f, m) ==
    IF IdentityOf(f, m) \in DOMAIN userAliases /\ userAliases[IdentityOf(f, m)] # <<>>
    THEN userAliases[IdentityOf(f, m)]
    ELSE IF WrittenByDate(f) /\ m.senderUsername \in DOMAIN userAliases
         THEN userAliases[m.senderUsername]
         ELSE <<>>

ConfiguredNames ==
    {contacts[k].remark : k \in DOMAIN contacts}
        \cup {contacts[k].nick_name : k \in DOMAIN contacts}
        \cup {userAliases[k] : k \in DOMAIN userAliases}

\* C2 as stated: no senderDisplayName written by an extraction script is a
\* string isWxidFormat accepts, whatever the contact table and the alias file
\* hold.
C2_NoWxidDisplayName ==
    \A e \in Emitted : ~IsWxidFormat(e[2].senderDisplayName)

\* C2 as amended: a senderDisplayName written by an extraction script is of
\* wxid format only when it is a remark or nickname of the contact table or
\* an alias of the alias file, copied as it is; the name the scripts fall
\* back to when no name is configured is never of wxid format.
C2_NoWxidFallback ==
    \A e \in Emitted :
        IsWxidFormat(e[2].senderDisplayName) =>
            e[2].senderDisplayName \in ConfiguredNames

\* C2 witness: a message from a wxid sender with no configured name was
\* emitted under the placeholder
C2_Witness ==
    \E e \in Emitted :
        /\ e[2].senderUsername # <<>>
        /\ IsWxidFormat(e[2].senderUsername)
        /\ FoundContact(e[1], e[2]) = NoContact
        /\ FoundAlias(e[1], e[2]) = <<>>
        /\ e[2].senderDisplayName = GroupMember

\* C3: both extraction scripts strip the garbage prefix of the parsed sender,
\* so every key passed to the contact lookup and to the alias lookup is the
\* pure wxid or username of a processed row, never the uncleaned sender.
C3_LookupsUsePureName ==
    lookups.contact \cup lookups.alias
        \subseteq {CleanUsername(s) : s \in lookups.senders}

(***************************************************************************)
(* Specification SpecDates: the date range of the extraction.  The rows of *)
(* the table, the target date and the machine's timezone vary; the sender  *)
(* is fixed and no name is configured.                                     *)
(***************************************************************************)
TzOffsets == {-8 * 3600, 0, 8 * 3600}

\* create_time samples, in hours from 00:00 UTC of day 1
SampleHours == {-6, 2, 12, 20, 26, 36, 44, 50}
TimeSamples == {SecondsPerDay + h * 3600 : h \in SampleHours}

RowOfDate(i, t) ==
    [local_id |-> i, create_time |-> t, local_type |-> 1,
     message_content |-> Alice \o <<":", "\n">> \o Body]

\* the same message in the schema extract-from-db.ts reads
RowOfDb(r) ==
    [localId |-> r.local_id, createTime |-> r.create_time * MillisPerSecond,
     type |-> r.local_type, content |-> r.message_content, talker |-> TargetGroup]

TimeLists == UNION {[1..n -> TimeSamples] : n \in 0..MaxRows}

InitDates ==
    /\ tzOffset \in TzOffsets
    /\ now = 1
    /\ contacts = NoFiles
    /\ userAliases = NoFiles
    /\ \E ts \in TimeLists :
          /\ groupTable = [i \in 1..Len(ts) |-> RowOfDate(i, ts[i])]
          /\ msgTables = << [name |-> MsgPrefix \o <<"a">>, ok |-> TRUE,
                             rows |-> [i \in 1..Len(ts) |-> RowOfDb(RowOfDate(i, ts[i]))]] >>
    /\ chathistory = NoFiles
    /\ reports = NoFiles
    /\ lookups = NoLookups
    /\ lastExtract = NoExtract
    /\ run = IdleRun
    /\ markdownContent = <<>>
    /\ html = NoHtml
    /\ JournalIdle
    /\ AnalysisIdle
    /\ SubtitleIdle

SpecDates == InitDates /\ [][NextExtract]_vars

\* the local ids of the messages the last run of extract-date.ts wrote
WrittenIds ==
    IF lastExtract.file = NoFile THEN {}
    ELSE {chathistory[lastExtract.file][i].localId :
             i \in 1..Len(chathistory[lastExtract.file])}

\* the local ids of the rows of the group table whose formatted time falls on
\* calendar day d
IdsOfDay(d) ==
    {groupTable[i].local_id : i \in
        {j \in 1..Len(groupTable) :
            FormatTime(groupTable[j].create_time, tzOffset).date = d}}

\* C4: for every timezone offset of the machine, the messages extract-date.ts
\* DATE writes are exactly the rows of the group table whose formattedTime
\* falls on calendar day DATE.
C4_ExactlyTheDay ==
    lastExtract.script = "extract-date" => WrittenIds = IdsOfDay(lastExtract.date)

(***************************************************************************)
(* generateHtmlReport (analyze-wechat.ts).  A markdown report is a         *)
(* sequence of tokens: the six tags, "t" (a run of text), ":" , "unit"     *)
(* (one of the three counter words the STATS block strips), "\n", "lq" and *)
(* "rq" (an opening and a closing quotation mark), "dash" and "THINK" (the *)
(* bold marker that opens the thought of a quote).  The result is a        *)
(* sequence of tokens too, "<div.c>" opening an element of class c.        *)
(***************************************************************************)
OpenTag(kind) ==
    CASE kind = "STATS" -> "[STATS]" [] kind = "TOPIC" -> "[TOPIC]"
      [] kind = "QUOTE" -> "[QUOTE]"
CloseTag(kind) ==
    CASE kind = "STATS" -> "[/STATS]" [] kind = "TOPIC" -> "[/TOPIC]"
      [] kind = "QUOTE" -> "[/QUOTE]"
CardOf(kind) ==
    CASE kind = "STATS" -> "<div.stats-grid>" [] kind = "TOPIC" -> "<div.topic-card>"
      [] kind = "QUOTE" -> "<div.quote-card>"
BlockKinds == {"STATS", "TOPIC", "QUOTE"}

IsSpace(c) == c \in {" ", "\n"}                \* \s

\* the positions from..Len(s) of s that hold a token of set cs
Positions(s, from, cs) == {i \in from..Len(s) : s[i] \in cs}
Min(S) == CHOOSE i \in S : \A j \in S : i <= j
Max(S) == CHOOSE i \in S : \A j \in S : i >= j

\* String.prototype.trim
RECURSIVE TrimLeft(_)
TrimLeft(s) == IF s # <<>> /\ IsSpace(Head(s)) THEN TrimLeft(Tail(s)) ELSE s
RECURSIVE TrimRight(_)
TrimRight(s) ==
    IF s # <<>> /\ IsSpace(s[Len(s)]) THEN TrimRight(SubSeq(s, 1, Len(s) - 1)) ELSE s
Trim(s) == TrimRight(TrimLeft(s))

\* String.prototype.split on the one-token separator sep
RECURSIVE Split(_, _)
Split(s, sep) ==
    LET at == Positions(s, 1, {sep})
    IN  IF at = {} THEN <<s>>
        ELSE <<SubSeq(s, 1, Min(at) - 1)>> \o Split(SubSeq(s, Min(at) + 1, Len(s)), sep)

\* one line of a STATS block: label and value around the first ":", the
\* counter words removed from the value; nothing for a line without ":"
StatItem(line) ==
    LET colons == Positions(line, 1, {":"})
        label == Trim(SubSeq(line, 1, Min(colons) - 1))
        IsKept(c) == c # "unit"
        value == SelectSeq(Trim(SubSeq(line, Min(colons) + 1, Len(line))), IsKept)
    IN  IF colons = {} THEN <<>>
        ELSE <<"<div.stat-item>", "<div.stat-value>">> \o value
                 \o <<"</div>", "<div.stat-label>">> \o label \o <<"</div>", "</div>">>

\* the replacement of a [STATS] block
StatsCard(content) ==
    LET IsLine(l) == Trim(l) # <<>>
        lines == SelectSeq(Split(Trim(content), "\n"), IsLine)
    IN  <<"<div.stats-grid>">> \o Concat([i \in 1..Len(lines) |-> StatItem(lines[i])])
            \o <<"</div>">>

\* the replacement of a [TOPIC] block
TopicCard(content) == <<"<div.topic-card>">> \o content \o <<"</div>">>

\* content.match(/[lq](.+?)[rq]\s*[dash]+\s*(.+?)(?:\n|$)/): the quote and the
\* author of the leftmost match, the quote the shortest that lets the rest
\* match; "." is any token but the newline.  ok is FALSE when nothing matches.
QuoteMatch(c) ==
    LET NoNewline(a, b) == \A k \in a..b : c[k] # "\n"
        \* first position at or after k that holds no space
        SkipSpace(k) == Min({x \in k..(Len(c) + 1) :
                               \A y \in k..(x - 1) : IsSpace(c[y])}
                            \ {x \in k..Len(c) : IsSpace(c[x])})
        \* first position at or after k that holds no dash
        SkipDash(k) == Min({x \in k..(Len(c) + 1) : \A y \in k..(x - 1) : c[y] = "dash"}
                           \ {x \in k..Len(c) : c[x] = "dash"})
        \* where the author starts when the closing mark is at r, 0 when the
        \* rest does not match
        AuthorStart(r) ==
            LET d == SkipSpace(r + 1)
                a == SkipSpace(SkipDash(d))
                blanks == {k \in SkipDash(d)..Len(c) : c[k] = " "}
            IN  IF SkipDash(d) = d THEN 0
                ELSE IF a <= Len(c) THEN a
                \* with only white space behind the dashes the last blank
                \* is given back and becomes the author
                ELSE IF blanks # {} THEN Max(blanks)
                \* with no blank either the last of two or more dashes is
                \* given back and becomes the author
                ELSE IF SkipDash(d) - d >= 2 THEN SkipDash(d) - 1
                ELSE 0
        pairs == {pr \in (1..Len(c)) \X (1..Len(c)) :
                     /\ c[pr[1]] \in {"lq", "q"}
                     /\ c[pr[2]] \in {"rq", "q"}
                     /\ pr[2] > pr[1] + 1
                     /\ NoNewline(pr[1] + 1, pr[2] - 1)
                     /\ AuthorStart(pr[2]) # 0}
        p == Min({pr[1] : pr \in pairs})
        r == Min({pr[2] : pr \in {x \in pairs : x[1] = p}})
        a == AuthorStart(r)
        stops == Positions(c, a, {"\n"})
        e == IF stops = {} THEN Len(c) ELSE Min(stops) - 1
    IN  IF pairs = {} THEN [ok |-> FALSE, quoteText |-> <<>>, author |-> <<>>]
        ELSE [ok |-> TRUE,
              quoteText |-> Trim(SubSeq(c, p + 1, r - 1)),
              author |-> Trim(SubSeq(c, a, e))]

\* content.match(/THINK\s*([\s\S]*?)$/): what follows the first marker, trimmed
ThinkMatch(c) ==
    LET at == Positions(c, 1, {"THINK"})
    IN  IF at = {} THEN <<>> ELSE Trim(SubSeq(c, Min(at) + 1, Len(c)))

\* the replacement of a [QUOTE] block
QuoteCard(content) ==
    LET qm == QuoteMatch(content)
        thinking == ThinkMatch(content)
    IN  IF qm.ok
        THEN <<"<div.quote-card>", "<div.quote-text>", "lq">> \o qm.quoteText
                 \o <<"rq", "</div>", "<div.quote-author>", "dash">> \o qm.author
                 \o <<"</div>">>
                 \o (IF thinking # <<>>
                     THEN <<"<div.quote-thinking>">> \o thinking \o <<"</div>">>
                     ELSE <<>>)
                 \o <<"</div>">>
        ELSE <<"<div.quote-card>">> \o content \o <<"</div>">>

\* the replacement function of each of the three replace calls
Card(kind, content) ==
    CASE kind = "STATS" -> StatsCard(content)
      [] kind = "TOPIC" -> TopicCard(content)
      [] kind = "QUOTE" -> QuoteCard(content)

\* html.replace(/\[K\]([\s\S]*?)\[\/K\]/g, f) with the greedy ([\s\S]*)
ReplaceBlocksGreedy(s, kind) ==
    LET opens == Positions(s, 1, {OpenTag(kind)})
        i == Min(opens)
        closes == Positions(s, i + 1, {CloseTag(kind)})
        j == Max(closes)
    IN  IF opens = {} \/ closes = {} THEN s
        ELSE SubSeq(s, 1, i - 1) \o Card(kind, SubSeq(s, i + 1, j - 1))
                 \o SubSeq(s, j + 1, Len(s))

\* html.replace(/\[K\]([\s\S]*?)\[\/K\]/g, f), f being Card(K, _): from the left, each opening tag
\* with the nearest end tag after it is replaced by f of what lies between;
\* the search goes on behind the end tag
RECURSIVE ReplaceBlocks(_, _)
ReplaceBlocks(s, kind) ==
    LET opens == Positions(s, 1, {OpenTag(kind)})
        i == Min(opens)
        closes == Positions(s, i + 1, {CloseTag(kind)})
        j == Min(closes)
    IN  IF opens = {} \/ closes = {} THEN s
        ELSE SubSeq(s, 1, i - 1) \o Card(kind, SubSeq(s, i + 1, j - 1))
                 \o ReplaceBlocks(SubSeq(s, j + 1, Len(s)), kind)

\* the three tag passes of generateHtmlReport, in the order of the code
SubstituteTags(md) ==
    ReplaceBlocks(ReplaceBlocks(ReplaceBlocks(md, "STATS"), "TOPIC"), "QUOTE")

\* the markdown passes behind the tag passes rewrite text inside a line
\* (headings, bold, list items, quoted lines) and end with \n -> <br>
MarkdownToHtml(s) == [i \in 1..Len(s) |-> IF s[i] = "\n" THEN "<br>" ELSE s[i]]

\* generateHtmlReport(markdownContent, date): the page is the converted
\* report inside the container element of the template, before the footer
GenerateHtmlReport(md, date) ==
    [title |-> date,
     body |-> <<"<div.container>">> \o MarkdownToHtml(SubstituteTags(md))
                  \o <<"<div.footer>", "</div>", "</div>">>]

(***************************************************************************)
(* Specification SpecHtml: generateHtmlReport applied to markdown reports  *)
(* made of up to MaxSegments segments: text, a lone tag, or a block.       *)
(***************************************************************************)
AllTags == {OpenTag(k) : k \in BlockKinds} \cup {CloseTag(k) : k \in BlockKinds}

BlockContents ==
    { <<>>,
      <<"t", ":", "t", "unit", "\n", "t">>,
      <<"lq", "t", "rq", "dash", "t", "\n", "THINK", "t">> }

Segments ==
    {<<"t", "\n">>}
        \cup {<<tag>> : tag \in AllTags}
        \cup {<<OpenTag(k)>> \o c \o <<CloseTag(k)>> : k \in BlockKinds, c \in BlockContents}

MarkdownInputs ==
    {Concat(ss) : ss \in UNION {[1..n -> Segments] : n \in 0..MaxSegments}}

InitHtml ==
    /\ tzOffset = 0
    /\ now = 1
    /\ contacts = NoFiles
    /\ userAliases = NoFiles
    /\ groupTable = <<>>
    /\ msgTables = <<>>
    /\ chathistory = NoFiles
    /\ reports = NoFiles
    /\ lookups = NoLookups
    /\ lastExtract = NoExtract
    /\ run = IdleRun
    /\ markdownContent \in MarkdownInputs
    /\ html = NoHtml
    /\ JournalIdle
    /\ AnalysisIdle
    /\ SubtitleIdle

\* html = generateHtmlReport(markdownContent, date)
RenderHtml ==
    /\ html = NoHtml
    /\ \E d \in Dates : html' = GenerateHtmlReport(markdownContent, d)
    /\ UNCHANGED <<journalVars, analysisVars, subtitleVars,
                       tzOffset, now, contacts, userAliases, groupTable, msgTables,
                   chathistory, reports, lookups, lastExtract, run, markdownContent>>

NextHtml == RenderHtml

SpecHtml == InitHtml /\ [][NextHtml]_vars

KindOfTag(tag) == CHOOSE k \in BlockKinds : tag \in {OpenTag(k), CloseTag(k), CardOf(k)}

\* the tags of a markdown report, in order
TagsOf(md) ==
    LET IsTag(c) == c \in AllTags
    IN  SelectSeq(md, IsTag)

\* every tag is closed by its matching end tag, every end tag closes a tag,
\* and no block lies inside another: the tags are a sequence of pairs
WellFormed(md) ==
    LET t == TagsOf(md)
    IN  /\ Len(t) % 2 = 0
        /\ \A i \in 1..(Len(t) \div 2) :
              \E k \in BlockKinds : t[2 * i - 1] = OpenTag(k) /\ t[2 * i] = CloseTag(k)

\* the kinds of the blocks of a well-formed report, in order
BlocksOf(md) ==
    LET t == TagsOf(md)
    IN  [i \in 1..(Len(t) \div 2) |-> KindOfTag(t[2 * i - 1])]

\* the kinds of the stats-grid, topic-card and quote-card elements of a page,
\* in order
CardsOf(body) ==
    LET IsCard(c) == c \in {CardOf(k) : k \in BlockKinds}
        cards == SelectSeq(body, IsCard)
    IN  [i \in 1..Len(cards) |-> KindOfTag(cards[i])]

XiaoYunQue == <<"xiao", "yun", "que">>        \* the name of the bot

\* the filter of preprocessMessages without the test of the animated emoji
KeepMessageEmoji(msg) ==
    /\ msg.type \notin {"system", "recall"}
    /\ ~(msg.content = <<>> \/ Trim(msg.content) = <<>>)
    /\ ~Includes(msg.senderDisplayName, XiaoYunQue)

\* the filter of preprocessMessages
KeepMessage(msg) ==
    /\ msg.type \notin {"system", "recall"}
    /\ ~(msg.type = "emoji" /\ ~Includes(msg.content, <<"fwcolon">>))
    /\ ~(msg.content = <<>> \/ Trim(msg.content) = <<>>)
    /\ ~Includes(msg.senderDisplayName, XiaoYunQue)

\* preprocessMessages(messages, targetDate); formattedTime.startsWith(targetDate)
PreprocessMessages(messages, targetDate) ==
    LET OnDate(msg) == msg.formattedTime.date = targetDate
        filtered == SelectSeq(messages, KeepMessage)
    IN  IF targetDate = 0 THEN filtered ELSE SelectSeq(filtered, OnDate)

\* the order of fs.readdirSync: by name, as libuv's scandir and NTFS return
\* it.  All names share the group's prefix; a digit of a timestamp sorts
\* before the f of fresh_, timestamps and dates sort by value.
NameBefore(a, b) == IF a[1] # b[1] THEN a[1] = "stamp" ELSE a[2] < b[2]

\* files[0]
FirstFile(dir) == CHOOSE f \in DOMAIN dir : \A g \in DOMAIN dir \ {f} : NameBefore(f, g)

\* the early exit of main() left out
NoMessagesFoundNever(processed) == FALSE

\* processedMessages.length === 0
NoMessagesFound(processed) == Len(processed) = 0

\* new Set(messages.map(m => m.formattedTime?.split(' ')[0]).filter(Boolean))
AvailableDates(messages) == {messages[i].formattedTime.date : i \in 1..Len(messages)}

\* main of analyze-wechat.ts --date=d, up to the call of generateContent
AnalyzeStart(d) ==
    LET started == [IdleRun EXCEPT !.script = "analyze", !.id = run.id + 1, !.date = d,
                                   !.before = reports,
                                   !.freshAtStart =
                                       IF <<"fresh", d>> \in DOMAIN chathistory
                                       THEN chathistory[<<"fresh", d>>] ELSE <<>>]
        file == FirstFile(chathistory)
        messages == chathistory[file]
        loaded == [started EXCEPT !.file = file, !.messages = messages]
    IN  /\ Idle
        /\ run.id < MaxRuns
        /\ run' = IF DOMAIN chathistory = {}
                  THEN [started EXCEPT !.pc = "done", !.exit = "1"]
                  ELSE IF NoMessagesFound(PreprocessMessages(messages, d))
                       THEN [loaded EXCEPT !.pc = "done", !.exit = "0",
                                           !.available = AvailableDates(messages)]
                       ELSE [loaded EXCEPT !.pc = "gemini", !.geminiCalls = 1]
        /\ UNCHANGED <<journalVars, analysisVars, subtitleVars,
                       tzOffset, now, contacts, userAliases, groupTable, msgTables,
                       chathistory, reports, lookups, lastExtract, markdownContent, html>>

AnalyzeStartRun == \E d \in Dates : AnalyzeStart(d)

\* the reports model.generateContent may answer with
ReportSamples ==
    { <<"t", "\n">>,
      <<"[STATS]", "t", ":", "t", "[/STATS]", "[QUOTE]", "lq", "t", "rq", "dash", "t",
        "[/QUOTE]">> }

UnchangedButRun ==
    UNCHANGED <<journalVars, analysisVars, subtitleVars,
                       tzOffset, now, contacts, userAliases, groupTable, msgTables,
                chathistory, reports, lookups, lastExtract, markdownContent, html>>

\* generateContent resolves: the report is rendered, reports/DATE is made,
\* daily-report.md and daily-report.html are written and generateImageReport
\* starts with puppeteer.launch
AnalyzeGeminiOk ==
    /\ run.pc = "gemini" /\ run.script = "analyze"
    /\ \E report \in ReportSamples :
          LET htmlReport == GenerateHtmlReport(report, run.date)
              written == WriteFile(WriteFile(reports, <<run.date, "md">>,
                                             [run |-> run.id, data |-> report]),
                                   <<run.date, "html">>,
                                   [run |-> run.id, data |-> htmlReport])
          IN  /\ reports' = written
              /\ run' = [run EXCEPT !.pc = "launch", !.atPng = written]
    /\ UNCHANGED <<journalVars, analysisVars, subtitleVars,
                       tzOffset, now, contacts, userAliases, groupTable, msgTables,
                   chathistory, lookups, lastExtract, markdownContent, html>>

\* generateContent rejects with a second call made instead of the rethrow
AnalyzeGeminiRetry ==
    /\ run.pc = "gemini" /\ run.script = "analyze"
    /\ run.geminiCalls < 2
    /\ run' = [run EXCEPT !.geminiCalls = @ + 1]
    /\ UnchangedButRun

\* generateContent rejects: analyzeWithGemini logs and rethrows, main rejects
\* and main().catch(console.error) ends the run
AnalyzeGeminiFail ==
    /\ run.pc = "gemini" /\ run.script = "analyze"
    /\ run' = [run EXCEPT !.pc = "done", !.thrown = "gemini"]
    /\ UnchangedButRun

\* puppeteer.launch resolves
LaunchOk ==
    /\ run.pc = "launch"
    /\ run' = [run EXCEPT !.pc = "goto"]
    /\ UnchangedButRun

\* puppeteer.launch rejects: it is outside the try, generateImageReport and
\* main reject
LaunchFail ==
    /\ run.pc = "launch"
    /\ run' = [run EXCEPT !.pc = "done", !.thrown = "launch"]
    /\ UnchangedButRun

\* newPage, setViewport and goto resolve
GotoOk ==
    /\ run.pc = "goto"
    /\ run' = [run EXCEPT !.pc = "shot"]
    /\ UnchangedButRun

\* the page load rejects with the catch block missing
GotoFailPropagates ==
    /\ run.pc = "goto"
    /\ run' = [run EXCEPT !.pc = "done", !.pngError = "goto", !.thrown = "goto"]
    /\ UnchangedButRun

\* the page load rejects: the catch block logs, finally closes the browser
GotoFail ==
    /\ run.pc = "goto"
    /\ run' = [run EXCEPT !.pc = "close", !.pngError = "goto"]
    /\ UnchangedButRun

\* page.screenshot resolves: daily-report.png is written
ShotOk ==
    /\ run.pc = "shot"
    /\ reports' = WriteFile(reports, <<run.date, "png">>,
                            [run |-> run.id, data |-> reports[<<run.date, "html">>].data])
    /\ run' = [run EXCEPT !.pc = "close"]
    /\ UNCHANGED <<journalVars, analysisVars, subtitleVars,
                       tzOffset, now, contacts, userAliases, groupTable, msgTables,
                   chathistory, lookups, lastExtract, markdownContent, html>>

\* page.screenshot rejects: the catch block logs, finally closes the browser
ShotFail ==
    /\ run.pc = "shot"
    /\ run' = [run EXCEPT !.pc = "close", !.pngError = "screenshot"]
    /\ UnchangedButRun

\* browser.close resolves, generateImageReport resolves and main prints
\* "Reports generated successfully!" with the three paths
CloseAndReport ==
    /\ run.pc = "close"
    /\ run' = [run EXCEPT !.pc = "done", !.success = TRUE]
    /\ UnchangedButRun

(***************************************************************************)
(* generate-ops-report.ts                                                  *)
(***************************************************************************)
\* main of generate-ops-report.ts up to the call of generateContent: all the
\* files of chathistory/ are loaded and profiled (no file is written)
OpsStart ==
    /\ Idle
    /\ run.id < MaxRuns
    /\ run' = [IdleRun EXCEPT !.script = "ops", !.id = run.id + 1, !.before = reports,
                              !.pc = "gemini", !.geminiCalls = 1]
    /\ UnchangedButRun

\* generateContent resolves: reports/ops-report.md is written
OpsGeminiOk ==
    /\ run.pc = "gemini" /\ run.script = "ops"
    /\ \E report \in ReportSamples :
          reports' = WriteFile(reports, <<0, "ops">>, [run |-> run.id, data |-> report])
    /\ run' = [run EXCEPT !.pc = "done", !.success = TRUE]
    /\ UNCHANGED <<journalVars, analysisVars, subtitleVars,
                       tzOffset, now, contacts, userAliases, groupTable, msgTables,
                   chathistory, lookups, lastExtract, markdownContent, html>>

\* generateContent rejects: generateOpsReport logs and rethrows
OpsGeminiFail ==
    /\ run.pc = "gemini" /\ run.script = "ops"
    /\ run' = [run EXCEPT !.pc = "done", !.thrown = "gemini"]
    /\ UnchangedButRun

(***************************************************************************)
(* Specification SpecPipeline: the scripts of the daily workflow run one   *)
(* after another, in any order, over a database of four messages and a     *)
(* chathistory folder that may hold a monthly export.                      *)
(***************************************************************************)
PipelineRows ==
    << [local_id |-> 1, create_time |-> 12 * 3600, local_type |-> 1,
        message_content |-> Alice \o <<":", "\n">> \o Body],
       [local_id |-> 2, create_time |-> SecondsPerDay + 12 * 3600, local_type |-> 1,
        message_content |-> Alice \o <<":", "\n">> \o Body],
       [local_id |-> 3, create_time |-> SecondsPerDay + 13 * 3600, local_type |-> 10000,
        message_content |-> <<"t">>],
       [local_id |-> 4, create_time |-> 2 * SecondsPerDay + 12 * 3600, local_type |-> 47,
        message_content |-> WxidA \o <<":", "\n">> \o Body] >>

\* an export holds the first n messages of the database
ExportOf(n, tz) ==
    [i \in 1..n |-> FormatDateRow(NoFiles, NoFiles, tz, PipelineRows[i])]

InitPipeline ==
    /\ tzOffset \in TzOffsets
    /\ now = 1
    /\ contacts = NoFiles
    /\ userAliases = NoFiles
    /\ groupTable = PipelineRows
    /\ msgTables = <<>>
    /\ \E n \in 0..Len(PipelineRows) :
          chathistory = IF n = 0 THEN NoFiles
                        ELSE WriteFile(NoFiles, <<"stamp", 0>>, ExportOf(n, tzOffset))
    /\ reports = NoFiles
    /\ lookups = NoLookups
    /\ lastExtract = NoExtract
    /\ run = IdleRun
    /\ markdownContent = <<>>
    /\ html = NoHtml
    /\ JournalIdle
    /\ AnalysisIdle
    /\ SubtitleIdle

NextPipeline ==
    \/ ExtractDateRun
    \/ AnalyzeStartRun
    \/ AnalyzeGeminiOk
    \/ AnalyzeGeminiFail
    \/ LaunchOk
    \/ LaunchFail
    \/ GotoOk
    \/ GotoFail
    \/ ShotOk
    \/ ShotFail
    \/ CloseAndReport
    \/ OpsStart
    \/ OpsGeminiOk
    \/ OpsGeminiFail

SpecPipeline == InitPipeline /\ [][NextPipeline]_vars

DailyOutputs == {"md", "html", "png"}

\* C5: when extract-date.ts D has saved its fresh file (with at least one
\* message) before a run of analyze-wechat.ts --date=D starts, the run loads
\* and analyzes the messages of that file, whatever other JSON files are in
\* chathistory/.
C5_AnalyzesFreshExtraction ==
    (run.script = "analyze" /\ run.freshAtStart # <<>>) =>
        /\ run.file = <<"fresh", run.date>>
        /\ run.messages = run.freshAtStart

\* C6: whenever a run of analyze-wechat.ts --date=D reports success,
\* reports/D/daily-report.md, .html and .png have all been written by that
\* run.
C6_SuccessMeansThreeOutputs ==
    (run.script = "analyze" /\ run.success) =>
        \A k \in DailyOutputs :
            /\ <<run.date, k>> \in DOMAIN reports
            /\ reports[<<run.date, k>>].run = run.id

\* C7: if PNG generation fails during page load or screenshot,
\* daily-report.md and daily-report.html were written by this run before the
\* PNG step started, the HTML is the rendering of the markdown, both files
\* are as they were when the PNG step started, and the failure does not
\* leave generateImageReport.
C7_PngFailureKeepsHtml ==
    run.pngError \in {"goto", "screenshot"} =>
        /\ \A k \in {"md", "html"} :
              /\ <<run.date, k>> \in DOMAIN run.atPng
              /\ run.atPng[<<run.date, k>>].run = run.id
        /\ run.atPng[<<run.date, "html">>].data =
               GenerateHtmlReport(run.atPng[<<run.date, "md">>].data, run.date)
        /\ \A k \in {"md", "html"} :
              /\ <<run.date, k>> \in DOMAIN reports
              /\ reports[<<run.date, k>>] = run.atPng[<<run.date, k>>]
        /\ run.thrown = "none"

\* C7 witness: a run whose page load or screenshot failed has ended, over a
\* reports folder that held a PNG of an earlier run
C7_Witness ==
    /\ run.pngError \in {"goto", "screenshot"}
    /\ run.pc = "done"
    /\ <<run.date, "png">> \in DOMAIN reports

C9_GeminiOnceNoRetry ==
    /\ run.geminiCalls <= 1
    /\ run.thrown = "gemini" =>
          /\ run.pc = "done"
          /\ ~run.success
          /\ reports = run.before

\* C9 witness: the Gemini call of a run of analyze-wechat.ts failed while the
\* daily report of its date existed from an earlier run
C9_Witness ==
    /\ run.script = "analyze"
    /\ run.thrown = "gemini"
    /\ run.geminiCalls = 1
    /\ <<run.date, "md">> \in DOMAIN reports

(***************************************************************************)
(* update-journal.ts (generate-ops-report.ts 358-566).  A daily report is  *)
(* the token sequence of generateHtmlReport with four more tokens: "H3"    *)
(* (the "### N." that opens a topic heading), "about" (the parenthesis     *)
(* that opens the share of a topic), "ACTION" and "CONNECT" (the headings  *)
(* of the action suggestion and of the key connectors) and "bold" (**).    *)
(* "THINK" is the marker of the thought in the one spelling both parsers   *)
(* accept.  A date is its day number; the year is 1970.                    *)
(***************************************************************************)
\* first position at or after k of c that holds no white space, Len(c) + 1
\* when there is none
SkipWhite(c, k) ==
    Min({x \in k..(Len(c) + 1) : \A y \in k..(x - 1) : IsSpace(c[y])}
        \ {x \in k..Len(c) : IsSpace(c[x])})

\* last position of the line that holds position k
LineEnd(c, k) ==
    LET stops == Positions(c, k, {"\n"})
    IN  IF stops = {} THEN Len(c) ELSE Min(stops) - 1

\* content.matchAll(/\[QUOTE\]([\s\S]*?)\[\/QUOTE\]/g): the contents of the
\* blocks, in order
RECURSIVE QuoteBlocks(_)
QuoteBlocks(s) ==
    LET opens == Positions(s, 1, {"[QUOTE]"})
        i == Min(opens)
        closes == Positions(s, i + 1, {"[/QUOTE]"})
        j == Min(closes)
    IN  IF opens = {} \/ closes = {} THEN <<>>
        ELSE <<SubSeq(s, i + 1, j - 1)>> \o QuoteBlocks(SubSeq(s, j + 1, Len(s)))

\* line1.match(/lq(.+?)rq\s*dash dash\s*(.+)$/) on the first line of the
\* trimmed block: the quote is the shortest that lets the rest match, the
\* author is the rest of the line
GoldQuoteMatch(blockContent) ==
    LET line1 == Head(Split(Trim(blockContent), "\n"))
        n == Len(line1)
        DashesAt(r) == SkipWhite(line1, r + 1)
        RestMatches(r) ==
            LET d == DashesAt(r)
            IN  d + 2 <= n /\ line1[d] = "dash" /\ line1[d + 1] = "dash"
        pairs == {pr \in (1..n) \X (1..n) :
                     /\ line1[pr[1]] = "lq"
                     /\ line1[pr[2]] = "rq"
                     /\ pr[2] > pr[1] + 1
                     /\ RestMatches(pr[2])}
        p == Min({pr[1] : pr \in pairs})
        r == Min({pr[2] : pr \in {x \in pairs : x[1] = p}})
    IN  IF pairs = {} THEN [ok |-> FALSE, quote |-> <<>>, author |-> <<>>]
        ELSE [ok |-> TRUE,
              quote |-> Trim(SubSeq(line1, p + 1, r - 1)),
              author |-> Trim(SubSeq(line1, DashesAt(r) + 2, n))]

\* blockContent.match(/THINK\s*(.+)$/m): the rest of the first line that
\* holds text behind the marker
ThinkingMatch(blockContent) ==
    LET at == Positions(blockContent, 1, {"THINK"})
        k == SkipWhite(blockContent, Min(at) + 1)
    IN  IF at = {} \/ k > Len(blockContent) THEN <<>>
        ELSE Trim(SubSeq(blockContent, k, LineEnd(blockContent, k)))

\* goldQuotes of parseDailyReport
GoldQuotes(content) ==
    LET blocks == QuoteBlocks(content)
        Matches(b) == GoldQuoteMatch(b).ok
        matched == SelectSeq(blocks, Matches)
    IN  [i \in 1..Len(matched) |->
            [quote |-> GoldQuoteMatch(matched[i]).quote,
             author |-> GoldQuoteMatch(matched[i]).author,
             thinking |-> ThinkingMatch(matched[i])]]

\* one match of /H3\s*(.+?)(?=\s*about)/ at the heading marker at h: the
\* shortest text behind the marker that the share parenthesis follows
TopicMatch(content, h) ==
    LET a == SkipWhite(content, h + 1)
        ends == {e \in a..LineEnd(content, a) :
                    LET k == SkipWhite(content, e + 1)
                    IN  k <= Len(content) /\ content[k] = "about"}
    IN  IF a <= Len(content) /\ ends # {}
        THEN [ok |-> TRUE, title |-> Trim(SubSeq(content, a, Min(ends)))]
        \* a blank in front of the parenthesis is given back and is the title
        ELSE IF a <= Len(content) /\ content[a] = "about" /\ a - 1 > h
                /\ content[a - 1] = " "
        THEN [ok |-> TRUE, title |-> <<>>]
        ELSE [ok |-> FALSE, title |-> <<>>]

\* topics of parseDailyReport
Topics(content) ==
    LET HasTopic(h) == content[h] = "H3" /\ TopicMatch(content, h).ok
        at == {h \in 1..Len(content) : HasTopic(h)}
        Rank(h) == Cardinality({g \in at : g <= h})
    IN  [i \in 1..Cardinality(at) |->
            TopicMatch(content, CHOOSE h \in at : Rank(h) = i).title]

\* one attempt of /\[TOPIC\][\s\S]*?H3\s*(.+?)(?=\n|\[\/TOPIC\])/ at the
\* heading marker at h: the text behind the marker up to the end of its line
\* or to the end tag
HeadingMatch(content, h) ==
    LET a == SkipWhite(content, h + 1)
        ends == {e \in a..LineEnd(content, a) :
                    e + 1 <= Len(content) /\ content[e + 1] \in {"\n", "[/TOPIC]"}}
        \* a blank behind the marker that ends its line is given back
        blankLine == \E k \in (h + 1)..(a - 1) : \E nl \in (k + 1)..(a - 1) :
                        content[k] = " " /\ content[nl] = "\n"
    IN  IF a <= Len(content) /\ ends # {}
        THEN [ok |-> TRUE, title |-> Trim(SubSeq(content, a, Min(ends)))]
        ELSE IF blankLine THEN [ok |-> TRUE, title |-> <<>>]
        ELSE [ok |-> FALSE, title |-> <<>>]

\* content.match(/\[TOPIC\][\s\S]*?H3\s*(.+?)(?=\n|\[\/TOPIC\])/): the first
\* heading behind the first [TOPIC] tag that matches
TopicSummaryMatch(content) ==
    LET opens == Positions(content, 1, {"[TOPIC]"})
        at == {h \in (Min(opens) + 1)..Len(content) :
                  content[h] = "H3" /\ HeadingMatch(content, h).ok}
    IN  IF opens = {} \/ at = {} THEN [ok |-> FALSE, title |-> <<>>]
        ELSE HeadingMatch(content, Min(at))

SummaryLimit == 50
SummaryKept == 48
Ellipsis == <<".", ".", ".">>
QuoteSeparator == <<" ", "dash", "dash", " ">>
DefaultSummary ==
    <<"she", "qun", "shen", "du", "tan", "tao", "yu", "zhi", "shi", "fen", "xiang">>

\* the cut of a summary that is too long
Truncate(summary) ==
    IF Len(summary) > SummaryLimit
    THEN SubSeq(summary, 1, SummaryKept) \o Ellipsis
    ELSE summary

\* oneSentenceSummary of parseDailyReport
OneSentenceSummary(content) ==
    LET goldQuotes == GoldQuotes(content)
        topicMatches == TopicSummaryMatch(content)
    IN  IF Len(goldQuotes) > 0
        THEN Truncate(goldQuotes[1].quote \o QuoteSeparator \o goldQuotes[1].author)
        ELSE IF topicMatches.ok THEN topicMatches.title
        ELSE DefaultSummary

\* actionSuggestion of parseDailyReport: what follows the heading, to the end
ActionSuggestion(content) ==
    LET at == Positions(content, 1, {"ACTION"})
    IN  IF at = {} THEN <<>> ELSE Trim(SubSeq(content, Min(at) + 1, Len(content)))

\* section.match(/\*\*(.+?)\*\*/g): the texts between two bold markers of a line
RECURSIVE BoldNames(_)
BoldNames(s) ==
    LET opens == Positions(s, 1, {"bold"})
        i == Min(opens)
        closes == {j \in Positions(s, i + 2, {"bold"}) : j <= LineEnd(s, i)}
    IN  IF opens = {} THEN <<>>
        ELSE IF closes = {} THEN BoldNames(SubSeq(s, i + 1, Len(s)))
        ELSE <<Trim(SubSeq(s, i + 1, Min(closes) - 1))>>
                 \o BoldNames(SubSeq(s, Min(closes) + 1, Len(s)))

MaxConnectors == 3

\* [...new Set(names)].slice(0, 3)
FirstDistinct(names) ==
    LET IsFirst(i) == \A j \in 1..(i - 1) : names[j] # names[i]
        firsts == {i \in 1..Len(names) : IsFirst(i)}
        Rank(i) == Cardinality({j \in firsts : j <= i})
        kept == {i \in firsts : Rank(i) <= MaxConnectors}
    IN  [p \in 1..Cardinality(kept) |-> names[CHOOSE i \in kept : Rank(i) = p]]

\* keyConnectors of parseDailyReport: the section runs from its heading to
\* the next heading, the next "[" or the end
KeyConnectors(content) ==
    LET at == Positions(content, 1, {"CONNECT"})
        stops == Positions(content, Min(at) + 1,
                           {"H3", "ACTION", "CONNECT"} \cup AllTags)
        last == IF stops = {} THEN Len(content) ELSE Min(stops) - 1
    IN  IF at = {} THEN <<>>
        ELSE FirstDistinct(BoldNames(SubSeq(content, Min(at) + 1, last)))

\* reportPath.match(/(\d{4}-\d{2}-\d{2})/): the first date of the path, which
\* is process.cwd() followed by reports/<dateDir>/daily-report.md
PathDate(pathDates, dateDir) == Head(pathDates \o <<dateDir>>)

\* parseDailyReport(reportPath) of a report that exists
ParseDailyReport(pathDates, dateDir, content) ==
    [date |-> PathDate(pathDates, dateDir),
     oneSentenceSummary |-> OneSentenceSummary(content),
     topics |-> Topics(content),
     goldQuotes |-> GoldQuotes(content),
     actionSuggestion |-> ActionSuggestion(content),
     keyConnectors |-> KeyConnectors(content)]

\* days of the months of a year that is no leap year
MonthLengths == <<31, 28, 31, 30, 31, 30, 31, 31, 30, 31, 30, 31>>

RECURSIVE DaysBefore(_)
DaysBefore(m) == IF m = 1 THEN 0 ELSE DaysBefore(m - 1) + MonthLengths[m - 1]

\* dateDir.substring(0, 7): the month of a date
MonthOf(d) ==
    CHOOSE m \in 1..Len(MonthLengths) :
        DaysBefore(m) <= d /\ d < DaysBefore(m) + MonthLengths[m]

\* fs.readdirSync(reportsDir).filter(d => /^\d{4}-\d{2}-\d{2}$/.test(d)):
\* the date directories of reports/; ops-report.md is no date directory
DateDirs(dir) == {k[1] : k \in {x \in DOMAIN dir : x[2] # "ops"}}

\* .sort() of a set of dates
SortDates(S) ==
    LET Rank(d) == Cardinality({e \in S : e <= d})
    IN  [i \in 1..Cardinality(S) |-> CHOOSE d \in S : Rank(d) = i]

\* generateMonthlyIndex(entries, month): the header with the count, one row
\* of the table and one section per entry
GenerateMonthlyIndex(entries, month) ==
    [month |-> month, count |-> Len(entries), entries |-> entries]

IndexFile(month) == <<"index", month>>
ReadmeFile == <<"README", 0>>

\* main of update-journal.ts
UpdateJournal ==
    LET dateDirs == SortDates(DateDirs(reports))
        HasReport(d) == <<d, "md">> \in DOMAIN reports       \* fs.existsSync(reportPath)
        parsed == SelectSeq(dateDirs, HasReport)
        months == {MonthOf(parsed[i]) : i \in 1..Len(parsed)}
        monthlyEntries(m) ==
            LET InMonth(d) == MonthOf(d) = m
                ds == SelectSeq(parsed, InMonth)
            IN  [i \in 1..Len(ds) |->
                    ParseDailyReport(cwd, ds[i], reports[<<ds[i], "md">>].data)]
        \* Array.from(monthlyEntries.keys()).sort().reverse()
        sorted == SortDates(months)
        masterIndex == [i \in 1..Len(sorted) |->
                           LET m == sorted[Len(sorted) + 1 - i]
                           IN  [month |-> m, count |-> Len(monthlyEntries(m))]]
        written == {IndexFile(m) : m \in months} \cup {ReadmeFile}
    IN  /\ \/ journal' = [f \in DOMAIN journal \cup written |->
                             IF f = ReadmeFile THEN masterIndex
                             ELSE IF f \in written
                                  THEN GenerateMonthlyIndex(monthlyEntries(f[2]), f[2])
                                  ELSE journal[f]]
           \* reports/ does not exist: readdirSync throws, nothing is written
           \/ DOMAIN reports = {} /\ journal' = journal
        /\ UNCHANGED <<pipelineVars, cwd, analysisVars, subtitleVars>>

NextJournal == UpdateJournal

(***************************************************************************)
(* Specification SpecJournal: update-journal.ts over reports/ folders that *)
(* hold date directories of several months, with and without a daily       *)
(* report, and possibly ops-report.md; the project may lie under a path    *)
(* that holds a date.                                                      *)
(***************************************************************************)
MaxMonths == 2       \* months the date directories fall into
MaxReports == 2      \* date directories of reports/

JournalDays == {1, 2}
JournalDates == {DaysBefore(m) + k : m \in 1..MaxMonths, k \in JournalDays}
CwdSamples == {<<>>, <<0>>}

\* a date directory: empty (mkdirSync done, nothing written) or with the
\* report and its page
DirChoices(contents) ==
    {[md |-> FALSE, data |-> <<>>]} \cup {[md |-> TRUE, data |-> c] : c \in contents}

\* reports/ with the date directories of assign, and ops-report.md if ops
ReportsFolder(assign, ops) ==
    LET keys == UNION {IF assign[d].md THEN {<<d, "md">>, <<d, "html">>}
                       ELSE {<<d, "dir">>} : d \in DOMAIN assign}
                    \cup (IF ops THEN {<<0, "ops">>} ELSE {})
    IN  [k \in keys |->
            CASE k[2] = "md" -> [run |-> 0, data |-> assign[k[1]].data]
              [] k[2] = "html" ->
                   [run |-> 0, data |-> GenerateHtmlReport(assign[k[1]].data, k[1])]
              [] OTHER -> [run |-> 0, data |-> <<>>]]

ReportsFolders(dates, contents) ==
    {ReportsFolder(assign, ops) :
        assign \in UNION {[S -> DirChoices(contents)] :
                             S \in {T \in SUBSET dates : Cardinality(T) <= MaxReports}},
        ops \in BOOLEAN}

InitJournal ==
    /\ tzOffset = 0
    /\ now = 1
    /\ contacts = NoFiles
    /\ userAliases = NoFiles
    /\ groupTable = <<>>
    /\ msgTables = <<>>
    /\ chathistory = NoFiles
    /\ reports \in ReportsFolders(JournalDates, ReportSamples)
    /\ lookups = NoLookups
    /\ lastExtract = NoExtract
    /\ run = IdleRun
    /\ markdownContent = <<>>
    /\ html = NoHtml
    /\ cwd \in CwdSamples
    /\ journal = NoFiles
    /\ AnalysisIdle
    /\ SubtitleIdle

SpecJournal == InitJournal /\ [][NextJournal]_vars

\* the date directories that hold daily-report.md
WithReport == {d \in DateDirs(reports) : <<d, "md">> \in DOMAIN reports}

\* the months that have an index, and the dates of the entries of an index
IndexedMonths == {f[2] : f \in {g \in DOMAIN journal : g[1] = "index"}}
EntryDates(m) ==
    [i \in 1..Len(journal[IndexFile(m)].entries) |-> journal[IndexFile(m)].entries[i].date]
Occurrences(m, d) == Cardinality({i \in 1..Len(EntryDates(m)) : EntryDates(m)[i] = d})

\* C11: after update-journal.ts has run, every date directory of reports/
\* that holds daily-report.md is an entry of the index of its own month,
\* once, and of no other index; the indexes hold no other entry (a date
\* directory without daily-report.md has none); README.md lists the months
\* of these directories, each once, with the number of entries of its index.
C11_EveryReportIndexedOnce ==
    ReadmeFile \in DOMAIN journal =>
        /\ IndexedMonths = {MonthOf(d) : d \in WithReport}
        /\ \A d \in WithReport : \A m \in IndexedMonths :
              Occurrences(m, d) = IF m = MonthOf(d) THEN 1 ELSE 0
        /\ \A m \in IndexedMonths : \A i \in 1..Len(EntryDates(m)) :
              EntryDates(m)[i] \in WithReport
        /\ LET readme == journal[ReadmeFile]
           IN  /\ {readme[i].month : i \in 1..Len(readme)} = IndexedMonths
               /\ \A i, j \in 1..Len(readme) : readme[i].month = readme[j].month => i = j
               /\ \A i \in 1..Len(readme) :
                     readme[i].count = Len(journal[IndexFile(readme[i].month)].entries)

(***************************************************************************)
(* Specification SpecEntries: update-journal.ts over one daily report,     *)
(* made of blocks as the prompt of analyzeWithGemini asks for them and of  *)
(* blocks that deviate from it.  Every "t" is one character.               *)
(***************************************************************************)
MaxBlocks == 2       \* segments of a daily report

\* lengths of a quote: short, and such that the summary with its one-letter
\* author has SummaryLimit and SummaryLimit + 1 characters
QuoteLengths == {1, SummaryLimit - 5, SummaryLimit - 4}

QuoteBlock(c) == <<"[QUOTE]">> \o c \o <<"[/QUOTE]", "\n">>
TopicBlock(c) == <<"[TOPIC]">> \o c \o <<"[/TOPIC]", "\n">>

\* the [QUOTE] block of the prompt, with a quote of n characters
PromptQuote(n) ==
    QuoteBlock(<<"\n", "lq">> \o Repeat(<<"t">>, n)
                   \o <<"rq", " ", "dash", "dash", " ", "t", "\n", "\n",
                        "THINK", " ", "t", "\n">>)

JournalSegments ==
    {PromptQuote(n) : n \in QuoteLengths}
        \cup { <<"t", "\n">>,
               \* one dash; straight quotation marks; the quote on the second
               \* line; three dashes; no quote
               QuoteBlock(<<"lq", "t", "rq", "dash", "t">>),
               QuoteBlock(<<"q", "t", "q", "dash", "dash", "t">>),
               QuoteBlock(<<"\n", "t", "\n", "lq", "t", "rq", "dash", "dash", "t", "\n">>),
               QuoteBlock(<<"lq", "t", "rq", "dash", "dash", "dash", "t">>),
               QuoteBlock(<<"t">>),
               \* the [TOPIC] block of the prompt; one with no heading; one
               \* whose heading the end tag follows; a heading in no block
               TopicBlock(<<"\n", "H3", " ", "t", " ", "about", "\n", "t", "\n">>),
               TopicBlock(<<"\n", "t", "\n">>),
               TopicBlock(<<"H3", "t">>),
               <<"H3", " ", "t", "t", "\n">>,
               <<"CONNECT", "\n", "bold", "t", "bold", "t", "\n", "ACTION", "\n", "t", "\n">> }

EntryContents ==
    {Concat(ss) : ss \in UNION {[1..n -> JournalSegments] : n \in 0..MaxBlocks}}

InitEntries ==
    /\ tzOffset = 0
    /\ now = 1
    /\ contacts = NoFiles
    /\ userAliases = NoFiles
    /\ groupTable = <<>>
    /\ msgTables = <<>>
    /\ chathistory = NoFiles
    /\ \E d \in JournalDates, c \in EntryContents :
          reports = ReportsFolder([x \in {d} |-> [md |-> TRUE, data |-> c]], FALSE)
    /\ lookups = NoLookups
    /\ lastExtract = NoExtract
    /\ run = IdleRun
    /\ markdownContent = <<>>
    /\ html = NoHtml
    /\ cwd = <<>>
    /\ journal = NoFiles
    /\ AnalysisIdle
    /\ SubtitleIdle

SpecEntries == InitEntries /\ [][NextJournal]_vars

\* the report the i-th entry of the index of month m was parsed from: the
\* entries of an index are in the order of the dates
EntrySource(m, i) ==
    LET InMonth(d) == MonthOf(d) = m
    IN  reports[<<SelectSeq(SortDates(WithReport), InMonth)[i], "md">>].data

\* the entries of the journal, each with the report it was parsed from
JournalEntries ==
    UNION {{[entry |-> journal[IndexFile(m)].entries[i], source |-> EntrySource(m, i)] :
               i \in 1..Len(journal[IndexFile(m)].entries)} : m \in IndexedMonths}

\* the topic headings of a report that lie inside a [TOPIC] block
HeadingsInBlocks(content) ==
    {h \in 1..Len(content) :
        /\ content[h] = "H3"
        /\ \E i \in 1..(h - 1) :
              /\ content[i] = "[TOPIC]"
              /\ \A k \in (i + 1)..(h - 1) : content[k] # "[/TOPIC]"
        /\ \E j \in (h + 1)..Len(content) : content[j] = "[/TOPIC]"}

\* the title of the heading at h: the rest of its line inside the block
HeadingText(content, h) ==
    Trim(SubSeq(content, h + 1, Min(Positions(content, h + 1, {"\n", "[/TOPIC]"})) - 1))

\* the summary the journal shall show for an entry parsed from content
GoldenSummary(entry, content) ==
    LET full == entry.goldQuotes[1].quote \o QuoteSeparator \o entry.goldQuotes[1].author
    IN  IF Len(entry.goldQuotes) > 0
        THEN IF Len(full) > SummaryLimit THEN SubSeq(full, 1, SummaryKept) \o Ellipsis
             ELSE full
        ELSE IF HeadingsInBlocks(content) # {}
             THEN HeadingText(content, Min(HeadingsInBlocks(content)))
             ELSE DefaultSummary

\* C12: the one-sentence summary of an entry is '<quote> -- <author>' of its
\* first gold quote, cut to its first 48 characters and '...' only when it
\* is longer than 50 characters; with no gold quote it is the title of the
\* first topic heading inside a [TOPIC] block; with neither it is the
\* default text.
C12_SummaryIsGoldenQuote ==
    \A x \in JournalEntries :
        x.entry.oneSentenceSummary = GoldenSummary(x.entry, x.source)

\* C19: every [QUOTE] block of a daily report that generateHtmlReport
\* renders as a quote card with quote text and author is a gold quote of the
\* journal entry of that report, with the same quote text and author.
C19_ParsersAgreeOnQuotes ==
    \A x \in JournalEntries :
        LET blocks == QuoteBlocks(x.source)
            gold == x.entry.goldQuotes
        IN  \A b \in 1..Len(blocks) :
                QuoteMatch(blocks[b]).ok =>
                    \E g \in 1..Len(gold) :
                        /\ gold[g].quote = QuoteMatch(blocks[b]).quoteText
                        /\ gold[g].author = QuoteMatch(blocks[b]).author

(***************************************************************************)
(* Specification SpecTables: extract-from-db.ts over databases whose       *)
(* tables differ in name, in whether the query of the script works on them *)
(* and in their rows.                                                      *)
(***************************************************************************)
MaxTables == 2       \* tables of message_0.db

TableNames ==
    { MsgPrefix \o <<"a">>, MsgPrefix \o <<"b">>,
      <<"m", "s", "g", "_", "c">>, <<"M", "s", "g", "X", "d">>,
      <<"N", "a", "m", "e", "2", "I", "d">> }

OtherGroup == "other@chatroom"

TableRow(id, seconds, talker) ==
    [localId |-> id, createTime |-> seconds * MillisPerSecond, type |-> 1,
     content |-> Alice \o <<":", "\n">> \o Body, talker |-> talker]

\* rows of the i-th table: none; two of the group on day 1, the later one
\* first; one of another group on day 1 and one of the group on day 2
TableRowSamples(i) ==
    { <<>>,
      << TableRow(10 * i + 1, NoonOfDay1 + 3600, TargetGroup),
         TableRow(10 * i + 2, NoonOfDay1, TargetGroup) >>,
      << TableRow(10 * i + 1, NoonOfDay1, OtherGroup),
         TableRow(10 * i + 2, NoonOfDay1 + SecondsPerDay, TargetGroup) >> }

Databases ==
    UNION {{db \in [1..n -> [name : TableNames, ok : BOOLEAN,
                             rows : UNION {TableRowSamples(i) : i \in 1..n}]] :
               /\ \A i \in 1..n : db[i].rows \in TableRowSamples(i)
               /\ \A i, j \in 1..n : db[i].name = db[j].name => i = j} :
           n \in 0..MaxTables}

InitTables ==
    /\ tzOffset = 0
    /\ now = 1
    /\ contacts = NoFiles
    /\ userAliases = NoFiles
    /\ groupTable = <<>>
    /\ msgTables \in Databases
    /\ chathistory = NoFiles
    /\ reports = NoFiles
    /\ lookups = NoLookups
    /\ lastExtract = NoExtract
    /\ run = IdleRun
    /\ markdownContent = <<>>
    /\ html = NoHtml
    /\ JournalIdle
    /\ AnalysisIdle
    /\ SubtitleIdle

SpecTables == InitTables /\ [][NextExtract]_vars

\* the tables whose name starts with Msg_
NamedMsg == {i \in 1..Len(msgTables) : HasAt(msgTables[i].name, 1, MsgPrefix)}

\* localId of the rows of table t for the group on day d (UTC)
GroupIdsOfDay(t, d) ==
    {t.rows[k].localId :
        k \in {j \in 1..Len(t.rows) :
                 /\ t.rows[j].talker = TargetGroup
                 /\ t.rows[j].createTime >= d * MillisPerDay
                 /\ t.rows[j].createTime < (d + 1) * MillisPerDay}}

\* C13: extract-from-db.ts queries every table whose name starts with Msg_;
\* a queried table whose query fails is skipped, the run goes on, and what
\* it finds and writes for the date are the messages of the group in all
\* the other queried tables.
C13_FailedTableSkipped ==
    lastExtract.script = "extract-from-db" =>
        LET Queried(i) == msgTables[i].name \in lastExtract.queried
            collected == UNION {GroupIdsOfDay(msgTables[i], lastExtract.date) :
                                   i \in {j \in 1..Len(msgTables) :
                                            Queried(j) /\ msgTables[j].ok}}
        IN  /\ \A i \in NamedMsg : Queried(i)
            /\ \A i \in 1..Len(msgTables) :
                  Queried(i) => (msgTables[i].name \in lastExtract.skipped <=> ~msgTables[i].ok)
            /\ WrittenIds = collected
            /\ lastExtract.found = Cardinality(collected)

\* C13 witness: a run skipped a table named Msg_... and wrote messages of a
\* table queried after it
C13_Witness ==
    /\ lastExtract.script = "extract-from-db"
    /\ \E i, j \in NamedMsg :
          /\ i < j
          /\ msgTables[i].name \in lastExtract.skipped
          /\ msgTables[j].ok
          /\ GroupIdsOfDay(msgTables[j], lastExtract.date) # {}
          /\ GroupIdsOfDay(msgTables[j], lastExtract.date) \subseteq WrittenIds

(***************************************************************************)
(* Specification SpecRepeat: extract-date.ts run again and again against   *)
(* one database, in a chathistory folder that may hold a fresh file of an  *)
(* earlier state of the database.                                          *)
(***************************************************************************)
StaleContent == << FormatDateRow(NoFiles, NoFiles, 0, RowOfDate(9, NoonOfDay1)) >>

StaleFolders ==
    {NoFiles} \cup {WriteFile(NoFiles, <<"fresh", d>>, StaleContent) : d \in Dates}

InitRepeat ==
    /\ tzOffset \in TzOffsets
    /\ now = 1
    /\ contacts = NoFiles
    /\ userAliases = NoFiles
    /\ \E ts \in TimeLists :
          /\ groupTable = [i \in 1..Len(ts) |-> RowOfDate(i, ts[i])]
          /\ msgTables = <<>>
    /\ chathistory \in StaleFolders
    /\ reports = NoFiles
    /\ lookups = NoLookups
    /\ lastExtract = NoExtract
    /\ run = IdleRun
    /\ markdownContent = <<>>
    /\ html = NoHtml
    /\ JournalIdle
    /\ AnalysisIdle
    /\ SubtitleIdle

NextRepeat == ExtractDateRun

SpecRepeat == InitRepeat /\ [][NextRepeat]_vars

\* C14: a run of extract-date.ts DATE touches no file but the fresh file of
\* DATE; it leaves that file in place when it finds messages and leaves the
\* folder as it was when it finds none; and a run for a date that was run
\* before, against the same database, leaves the folder exactly as the
\* earlier run left it.
C14_RepeatableOverwrite ==
    lastExtract.script = "extract-date" =>
        LET f == <<"fresh", lastExtract.date>>
        IN  /\ DOMAIN chathistory = DOMAIN lastExtract.before
                                    \cup (IF lastExtract.found > 0 THEN {f} ELSE {})
            /\ \A g \in DOMAIN lastExtract.before \ {f} :
                  chathistory[g] = lastExtract.before[g]
            /\ lastExtract.found = 0 => chathistory = lastExtract.before
            /\ lastExtract.again => chathistory = lastExtract.before

\* C14 witness: a date with messages was extracted a second time, after a
\* run for another date found nothing and left the fresh file of that date
C14_Witness ==
    /\ lastExtract.script = "extract-date"
    /\ lastExtract.again
    /\ lastExtract.found > 0
    /\ Len(chathistory[<<"fresh", lastExtract.date>>]) = lastExtract.found
    /\ \E d \in lastExtract.ran \ {lastExtract.date} :
          /\ IdsOfDay(d) = {}
          /\ <<"fresh", d>> \in DOMAIN chathistory
          /\ chathistory[<<"fresh", d>>] = StaleContent

(***************************************************************************)
(* preprocessMessages and analyzeUsers, called one after the other by main *)
(* of analyze-wechat.ts.  keptMessages and userMap hold the results once   *)
(* the functions were called.                                              *)
(***************************************************************************)
Preprocess ==
    /\ ~keptMessages.called
    /\ keptMessages' = [called |-> TRUE,
                        messages |-> PreprocessMessages(chatMessages, dateFilter)]
    /\ UNCHANGED <<pipelineVars, journalVars, subtitleVars,
                   chatMessages, dateFilter, userMap>>

(***************************************************************************)
(* Specification SpecPreprocess: preprocessMessages over lists of messages *)
(* of every kind the filter tells apart.                                   *)
(***************************************************************************)
MaxMessages == 3     \* messages of the loaded file

ChatMessage(type, content, name, day) ==
    [type |-> type, content |-> content, senderUsername |-> Alice,
     senderDisplayName |-> name, formattedTime |-> [date |-> day, tod |-> 0]]

MessageSamples ==
    { ChatMessage("text", Body, Alice, 1),
      ChatMessage("text", Body, Alice, 2),
      ChatMessage("system", Body, Alice, 1),
      ChatMessage("recall", Body, Alice, 1),
      ChatMessage("emoji", Body, Alice, 1),
      ChatMessage("emoji", <<"a", "fwcolon", "b">>, Alice, 1),
      ChatMessage("text", <<>>, Alice, 1),
      ChatMessage("text", <<" ", "\n">>, Alice, 1),
      ChatMessage("text", Body, <<"a">> \o XiaoYunQue \o <<"1">>, 1) }

InitPreprocess ==
    /\ tzOffset = 0
    /\ now = 1
    /\ contacts = NoFiles
    /\ userAliases = NoFiles
    /\ groupTable = <<>>
    /\ msgTables = <<>>
    /\ chathistory = NoFiles
    /\ reports = NoFiles
    /\ lookups = NoLookups
    /\ lastExtract = NoExtract
    /\ run = IdleRun
    /\ markdownContent = <<>>
    /\ html = NoHtml
    /\ JournalIdle
    /\ SubtitleIdle
    /\ chatMessages \in UNION {[1..n -> MessageSamples] : n \in 0..MaxMessages}
    /\ dateFilter \in {0} \cup Dates
    /\ keptMessages = [called |-> FALSE, messages |-> <<>>]
    /\ userMap = [called |-> FALSE, users |-> NoFiles]

NextPreprocess == Preprocess

SpecPreprocess == InitPreprocess /\ [][NextPreprocess]_vars

\* the elements of s at the positions idx, in the order of s
Pick(s, idx) ==
    [k \in 1..Cardinality(idx) |->
        s[CHOOSE i \in idx : Cardinality({j \in idx : j < i}) = k - 1]]

\* a message the claim lets through
Passes(msg) ==
    /\ msg.type # "system"
    /\ msg.type # "recall"
    /\ msg.type = "emoji" => \E i \in 1..Len(msg.content) : msg.content[i] = "fwcolon"
    /\ \E i \in 1..Len(msg.content) : ~IsSpace(msg.content[i])
    /\ ~Includes(msg.senderDisplayName, XiaoYunQue)
    /\ dateFilter # 0 => msg.formattedTime.date = dateFilter

\* C15: the result of preprocessMessages is the input restricted, in input
\* order, to the messages that are no system message, no recalled message,
\* no animated emoji without a full-width colon, not empty or blank, not of
\* the bot and, with a target date, of that date.
C15_PreprocessKeepsWhatPasses ==
    keptMessages.called =>
        keptMessages.messages =
            Pick(chatMessages, {i \in 1..Len(chatMessages) : Passes(chatMessages[i])})

\* C15 witness: with a target date, a call dropped a message and kept two,
\* one of them an animated emoji with a full-width colon
C15_Witness ==
    /\ keptMessages.called
    /\ dateFilter # 0
    /\ Len(keptMessages.messages) = 2
    /\ Len(chatMessages) = 3
    /\ \E i \in 1..2 : keptMessages.messages[i].type = "emoji"

(***************************************************************************)
(* Specification SpecParse: either extraction script over one message of   *)
(* the group whose raw content is any short string of letters, colons and  *)
(* newlines.                                                               *)
(***************************************************************************)
MaxRaw == 5          \* characters of a raw content

RawContents == UNION {[1..n -> {"a", ":", "\n"}] : n \in 0..MaxRaw}

InitParse ==
    /\ tzOffset = 0
    /\ now = 1
    /\ contacts = NoFiles
    /\ userAliases = NoFiles
    /\ \E mc \in RawContents :
          /\ groupTable = << [local_id |-> 1, create_time |-> NoonOfDay1,
                              local_type |-> 1, message_content |-> mc] >>
          /\ msgTables = << [name |-> MsgPrefix \o <<"a">>, ok |-> TRUE,
                             rows |-> << [localId |-> 1,
                                          createTime |-> NoonOfDay1 * MillisPerSecond,
                                          type |-> 1, content |-> mc,
                                          talker |-> TargetGroup] >>] >>
    /\ chathistory = NoFiles
    /\ reports = NoFiles
    /\ lookups = NoLookups
    /\ lastExtract = NoExtract
    /\ run = IdleRun
    /\ markdownContent = <<>>
    /\ html = NoHtml
    /\ JournalIdle
    /\ AnalysisIdle
    /\ SubtitleIdle

SpecParse == InitParse /\ [][NextExtract]_vars

\* the raw content of the message of the group
RawContent == groupTable[1].message_content

\* the lengths of the senders raw may start with: not empty, without colon
\* and newline, and followed by a colon and a newline
SenderLengths(raw) ==
    {n \in 1..Len(raw) : /\ \A i \in 1..n : raw[i] \notin {":", "\n"}
                         /\ HasAt(raw, n + 1, <<":", "\n">>)}

\* C16: both scripts split a raw content that starts with a sender (not
\* empty, without colon and newline) followed by a colon and a newline into
\* that sender and the rest, so that sender, colon, newline and content make
\* up the raw content again; any other raw content is emitted unchanged,
\* with an empty sender.
C16_SplitWithoutLoss ==
    \A e \in Emitted :
        LET m == e[2]
            raw == RawContent
        IN  IF SenderLengths(raw) # {}
            THEN /\ \E n \in SenderLengths(raw) : m.senderUsername = SubSeq(raw, 1, n)
                 /\ m.senderUsername \o <<":", "\n">> \o m.content = raw
            ELSE /\ m.senderUsername = <<>>
                 /\ m.content = raw

\* C16 witness: a script emitted a message whose raw content holds a sender
\* and a content that is a further colon and newline
C16_Witness ==
    \E e \in Emitted :
        /\ Len(e[2].senderUsername) = 1
        /\ e[2].content = <<":", "\n">>

(***************************************************************************)
(* analyzeUsers.  The Map userMap is a function from senderUsername to the *)
(* UserStats of the user.                                                  *)
(***************************************************************************)
Bob == <<"b", "o", "b">>

\* content.match(/@[一-龥a-zA-Z0-9_]+/g), each match without its @:
\* the matches from position i on
RECURSIVE MentionsFrom(_, _)
MentionsFrom(c, i) ==
    IF i > Len(c) THEN <<>>
    ELSE IF c[i] = "@" /\ i < Len(c) /\ IsWord(c[i + 1])
         THEN LET stops == {k \in (i + 1)..Len(c) : ~IsWord(c[k])}
                  j == IF stops = {} THEN Len(c) ELSE Min(stops) - 1
              IN  <<SubSeq(c, i + 1, j)>> \o MentionsFrom(c, j + 1)
         ELSE MentionsFrom(c, i + 1)

Mentions(content) == MentionsFrom(content, 1)

NewUser(username, displayName) ==
    [username |-> username, displayName |-> displayName, messageCount |-> 0,
     mentionedCount |-> 0, mentionsOthers |-> 0, repliedToCount |-> 0,
     replyToOthers |-> 0]

\* the mentions among ms that otherUser.displayName.includes
Mentioning(ms, displayName) == {k \in 1..Len(ms) : Includes(displayName, ms[k])}

\* one round of the loop of analyzeUsers: msg processed with userMap = map
AnalyzeMessage(map, msg) ==
    LET username == msg.senderUsername
        displayName == IF msg.senderDisplayName # <<>> THEN msg.senderDisplayName
                       ELSE username
        known == [u \in DOMAIN map \cup {username} |->
                     IF u \in DOMAIN map THEN map[u] ELSE NewUser(username, displayName)]
        mentions == Mentions(msg.content)
        counted == [known EXCEPT ![username].messageCount = @ + 1,
                                 ![username].mentionsOthers = @ + Len(mentions)]
        mentioned == [u \in DOMAIN counted |->
                         [counted[u] EXCEPT !.mentionedCount =
                             @ + Cardinality(Mentioning(mentions, counted[u].displayName))]]
    IN  IF msg.type = "quote"
        THEN [mentioned EXCEPT ![username].replyToOthers = @ + 1]
        ELSE mentioned

RECURSIVE AnalyzeFrom(_, _, _)
AnalyzeFrom(map, messages, i) ==
    IF i > Len(messages) THEN map
    ELSE AnalyzeFrom(AnalyzeMessage(map, messages[i]), messages, i + 1)

\* analyzeUsers(messages)
AnalyzeUsers(messages) == AnalyzeFrom(NoFiles, messages, 1)

AnalyzeUsersCall ==
    /\ keptMessages.called
    /\ ~userMap.called
    /\ userMap' = [called |-> TRUE, users |-> AnalyzeUsers(keptMessages.messages)]
    /\ UNCHANGED <<pipelineVars, journalVars, subtitleVars,
                   chatMessages, dateFilter, keptMessages>>

(***************************************************************************)
(* Specification SpecUsers: preprocessMessages and analyzeUsers over lists *)
(* of messages of two users who mention each other.                        *)
(***************************************************************************)
UserMessage(sender, type, content) ==
    [type |-> type, content |-> content, senderUsername |-> sender,
     senderDisplayName |-> sender, formattedTime |-> [date |-> 1, tod |-> 0]]

UserMessageSamples ==
    { UserMessage(Alice, "text", Body),
      UserMessage(Alice, "text", <<"@">> \o Bob \o <<" ">> \o Body),
      UserMessage(Alice, "quote", <<"@", "a", "l", " ", "@">> \o Bob),
      UserMessage(Alice, "text", <<"@", " ">> \o Bob),
      UserMessage(Bob, "text", Body),
      UserMessage(Bob, "quote", Body \o <<"@">> \o Alice),
      UserMessage(Bob, "system", <<"@">> \o Alice) }

InitUsers ==
    /\ tzOffset = 0
    /\ now = 1
    /\ contacts = NoFiles
    /\ userAliases = NoFiles
    /\ groupTable = <<>>
    /\ msgTables = <<>>
    /\ chathistory = NoFiles
    /\ reports = NoFiles
    /\ lookups = NoLookups
    /\ lastExtract = NoExtract
    /\ run = IdleRun
    /\ markdownContent = <<>>
    /\ html = NoHtml
    /\ JournalIdle
    /\ SubtitleIdle
    /\ chatMessages \in UNION {[1..n -> UserMessageSamples] : n \in 0..MaxMessages}
    /\ dateFilter \in {0, 1}
    /\ keptMessages = [called |-> FALSE, messages |-> <<>>]
    /\ userMap = [called |-> FALSE, users |-> NoFiles]

NextUsers ==
    \/ Preprocess
    \/ AnalyzeUsersCall

SpecUsers == InitUsers /\ [][NextUsers]_vars

\* the mentions in the analyzed messages that name the user of display name
\* displayName
RECURSIVE MentionsOf(_, _, _)
MentionsOf(displayName, messages, i) ==
    IF i > Len(messages) THEN 0
    ELSE Cardinality(Mentioning(Mentions(messages[i].content), displayName))
         + MentionsOf(displayName, messages, i + 1)

\* C17: after analyzeUsers the mentionedCount of every user is the number of
\* mentions in the analyzed messages that name the user, wherever the
\* mentions stand relative to the messages of the user.
C17_MentionedCountIsTotal ==
    userMap.called =>
        \A u \in DOMAIN userMap.users :
            userMap.users[u].mentionedCount =
                MentionsOf(userMap.users[u].displayName, keptMessages.messages, 1)

(***************************************************************************)
(* Specification SpecTypes: either extraction script over messages of the  *)
(* group of every type code the scripts name, and of some they do not.     *)
(***************************************************************************)
TypeCodes == {0, 1, 2, 3, 34, 42, 43, 47, 48, 49, 50, 10000, 10002}

TypeRow(i, t) ==
    [local_id |-> i, create_time |-> NoonOfDay1, local_type |-> t,
     message_content |-> Alice \o <<":", "\n">> \o Body]

InitTypes ==
    /\ tzOffset = 0
    /\ now = 1
    /\ contacts = NoFiles
    /\ userAliases = NoFiles
    /\ \E ts \in UNION {[1..n -> TypeCodes] : n \in 1..MaxRows} :
          /\ groupTable = [i \in 1..Len(ts) |-> TypeRow(i, ts[i])]
          /\ msgTables = << [name |-> MsgPrefix \o <<"a">>, ok |-> TRUE,
                             rows |-> [i \in 1..Len(ts) |-> RowOfDb(TypeRow(i, ts[i]))]] >>
    /\ chathistory = NoFiles
    /\ reports = NoFiles
    /\ lookups = NoLookups
    /\ lastExtract = NoExtract
    /\ run = IdleRun
    /\ markdownContent = <<>>
    /\ html = NoHtml
    /\ JournalIdle
    /\ AnalysisIdle
    /\ SubtitleIdle

SpecTypes == InitTypes /\ [][NextExtract]_vars

\* C18: whichever script wrote a message, its type label is the label
\* extract-date.ts gives the type code and also the label extract-from-db.ts
\* gives it.
C18_SameTypeLabel ==
    \A e \in Emitted :
        /\ e[2].type = TypeLabelDate(e[2].localType)
        /\ e[2].type = GetMessageType(e[2].localType)

(***************************************************************************)
(* The subtitle image tool of the youtube-learning skill.  subtitleText is *)
(* the lines of the textarea, cropHeightInput the number typed into the    *)
(* crop height field (0: empty or 0).  A file and the image it holds are   *)
(* one value.  canvas.frames are the drawImage calls since the canvas was  *)
(* last sized: the rows sy..sy+sh of the image drawn at the rows dy..dy+sh *)
(* of the canvas.  sinceInput records whether an input event happened,     *)
(* whether the last one found a timeout pending, and how many timeouts     *)
(* called draw() since.                                                    *)
(***************************************************************************)
DefaultCropHeight == 100

\* subtitleText.value.split('\n').filter(line => line.trim() !== '')
NonBlankLines(text) == SelectSeq(text, LAMBDA line : Trim(line) # <<>>)

\* parseInt(cropHeightInput.value) || 100
CropHeight(input) == IF input = 0 THEN DefaultCropHeight ELSE input

MinOf(a, b) == IF a <= b THEN a ELSE b
MaxOf(a, b) == IF a >= b THEN a ELSE b

\* draw() with an image loaded
Draw(image, text, input) ==
    LET lines == NonBlankLines(text)
        textLines == IF Len(lines) > 0 THEN lines ELSE << <<>> >>
        cropHeight == CropHeight(input)
        h == image.height
        totalHeight == h + MaxOf(0, Len(textLines) - 1) * cropHeight
        safeCropH == MinOf(cropHeight, h)
        Strip(i) == [sy |-> h - safeCropH, sh |-> safeCropH,
                     dy |-> h + (i - 1) * safeCropH]
    IN  [width |-> image.width, height |-> totalHeight,
         frames |-> << [sy |-> 0, sh |-> h, dy |-> 0] >>
                    \o [i \in 1..(Len(textLines) - 1) |-> Strip(i)]]

\* the canvas after draw()
Drawn(image) ==
    IF image = NoImage THEN canvas
    ELSE LET d == Draw(image, subtitleText, cropHeightInput)
         IN  [canvas EXCEPT !.width = d.width, !.height = d.height, !.frames = d.frames]

MaxTimers == 2       \* timeout ids of the page

\* a clearTimeout that cancels nothing
ClearTimeoutNoop(pending, id) == pending

\* clearTimeout(id): the pending timeouts without the one of this id
ClearTimeout(pending, id) == pending \ {id}

\* debouncedDraw(): clearTimeout(debounceTimer); debounceTimer =
\* setTimeout(draw, 20).  The new timeout gets an id that no pending timeout
\* has.
DebouncedDraw ==
    LET cleared == ClearTimeout(timers, debounceTimer)
        free == {i \in 1..MaxTimers : i \notin cleared}
    IN  /\ free # {}
        /\ debounceTimer' = Min(free)
        /\ timers' = cleared \cup {Min(free)}
        /\ sinceInput' = [happened |-> TRUE, cancelled |-> timers # {}, draws |-> 0]

\* change event of imageInput with a file chosen: a FileReader starts to
\* read it
ImageSelected(file) ==
    /\ imageInput' = file
    /\ loads' = loads \cup {file}
    /\ UNCHANGED <<pipelineVars, journalVars, analysisVars,
                   baseImage, subtitleText, cropHeightInput, canvas, debounceTimer,
                   placeholder, downloadBtn, timers, sinceInput>>

\* img.onload of a file that was being read
ImageLoaded(img) ==
    /\ img \in loads
    /\ loads' = loads \ {img}
    /\ baseImage' = img
    /\ placeholder' = "none"
    /\ downloadBtn' = [disabled |-> FALSE]
    /\ canvas' = [Drawn(img) EXCEPT !.display = "block"]
    /\ UNCHANGED <<pipelineVars, journalVars, analysisVars,
                   subtitleText, cropHeightInput, debounceTimer, imageInput,
                   timers, sinceInput>>

\* input event of the textarea
TextInput(text) ==
    /\ subtitleText' = text
    /\ DebouncedDraw
    /\ UNCHANGED <<pipelineVars, journalVars, analysisVars,
                   baseImage, cropHeightInput, canvas, placeholder, downloadBtn,
                   imageInput, loads>>

\* input event of the crop height field
CropHeightInput(input) ==
    /\ cropHeightInput' = input
    /\ DebouncedDraw
    /\ UNCHANGED <<pipelineVars, journalVars, analysisVars,
                   baseImage, subtitleText, canvas, placeholder, downloadBtn,
                   imageInput, loads>>

\* the timeout id fires: draw()
DebounceFires(id) ==
    /\ id \in timers
    /\ timers' = timers \ {id}
    /\ canvas' = Drawn(baseImage)
    /\ sinceInput' = [sinceInput EXCEPT !.draws = @ + 1]
    /\ UNCHANGED <<pipelineVars, journalVars, analysisVars,
                   baseImage, subtitleText, cropHeightInput, debounceTimer,
                   placeholder, downloadBtn, imageInput, loads>>

\* click on resetBtn that leaves the download button as it is
ResetKeepsDownload ==
    /\ baseImage' = NoImage
    /\ imageInput' = NoImage
    /\ subtitleText' = <<>>
    /\ canvas' = [canvas EXCEPT !.display = "none"]
    /\ placeholder' = "flex"
    /\ UNCHANGED <<pipelineVars, journalVars, analysisVars,
                   cropHeightInput, debounceTimer, downloadBtn, loads, timers,
                   sinceInput>>

\* click on resetBtn
Reset ==
    /\ baseImage' = NoImage
    /\ imageInput' = NoImage
    /\ subtitleText' = <<>>
    /\ canvas' = [canvas EXCEPT !.display = "none"]
    /\ placeholder' = "flex"
    /\ downloadBtn' = [disabled |-> TRUE]
    /\ UNCHANGED <<pipelineVars, journalVars, analysisVars,
                   cropHeightInput, debounceTimer, loads, timers, sinceInput>>

(***************************************************************************)
(* Specification SpecSubtitle: the page of the tool, used in any order.    *)
(***************************************************************************)
MaxLines == 3        \* lines of the textarea
MaxCrop == 4         \* largest crop height typed

Images == {[width |-> 4, height |-> 3], [width |-> 2, height |-> 150]}
TextLines == {<<" ">>, <<"a">>}
Texts == UNION {[1..n -> TextLines] : n \in 0..MaxLines}

InitSubtitle ==
    /\ tzOffset = 0
    /\ now = 1
    /\ contacts = NoFiles
    /\ userAliases = NoFiles
    /\ groupTable = <<>>
    /\ msgTables = <<>>
    /\ chathistory = NoFiles
    /\ reports = NoFiles
    /\ lookups = NoLookups
    /\ lastExtract = NoExtract
    /\ run = IdleRun
    /\ markdownContent = <<>>
    /\ html = NoHtml
    /\ JournalIdle
    /\ AnalysisIdle
    /\ SubtitleIdle

NextSubtitle ==
    \/ \E file \in Images : ImageSelected(file)
    \/ \E img \in Images : ImageLoaded(img)
    \/ \E text \in Texts : TextInput(text)
    \/ \E input \in 0..MaxCrop : CropHeightInput(input)
    \/ \E id \in 1..MaxTimers : DebounceFires(id)
    \/ Reset

SpecSubtitle == InitSubtitle /\ [][NextSubtitle]_vars

\* the canvas shows the image, the text and the crop height of the page:
\* an image is loaded and no redraw is pending
CanvasCurrent == baseImage # NoImage /\ timers = {}

\* C20: once draw() has drawn an image of height h with n lines that are not
\* blank, the canvas is h + max(0, n - 1) * cropHeight high, and the image
\* and the n - 1 strips lie one under the other from the top of the canvas
\* to its bottom.
C20_FramesFillCanvas ==
    CanvasCurrent =>
        LET h == baseImage.height
            n == Len(NonBlankLines(subtitleText))
            frames == canvas.frames
        IN  /\ canvas.height = h + MaxOf(0, n - 1) * CropHeight(cropHeightInput)
            /\ Len(frames) = MaxOf(1, n)
            /\ frames[1].dy = 0
            /\ \A i \in 2..Len(frames) : frames[i].dy = frames[i - 1].dy + frames[i - 1].sh
            /\ frames[Len(frames)].dy + frames[Len(frames)].sh = canvas.height

\* C21: at most one timeout is pending, and it is the one debouncedDraw
\* stored last; once an input event has happened, the timeout it started is
\* pending or has called draw() once, and nothing else has: the events of a
\* burst cause one draw(), after the last of them; and that draw() put on the
\* canvas the image with the text and the crop height the page holds.
C21_OneDrawPerBurst ==
    /\ Cardinality(timers) <= 1
    /\ timers \subseteq {debounceTimer}
    /\ sinceInput.happened => Cardinality(timers) + sinceInput.draws = 1
    /\ (sinceInput.happened /\ sinceInput.draws = 1 /\ baseImage # NoImage) =>
          LET d == Draw(baseImage, subtitleText, cropHeightInput)
          IN  /\ canvas.width = d.width
              /\ canvas.height = d.height
              /\ canvas.frames = d.frames

\* C21 witness: an input event cancelled the timeout of the event before it,
\* and the timeout it started has drawn the image with two lines of text
C21_Witness ==
    /\ sinceInput.happened
    /\ sinceInput.cancelled
    /\ sinceInput.draws = 1
    /\ timers = {}
    /\ baseImage # NoImage
    /\ Len(NonBlankLines(subtitleText)) = 2
    /\ Len(canvas.frames) = 2

\* C22: while no file is chosen in the file input (the page as loaded, or
\* after a click on reset and before the next choice of a file), no image is
\* loaded, the canvas is hidden, the placeholder is shown and the download
\* button is disabled.
C22_ResetStays ==
    imageInput = NoImage =>
        /\ baseImage = NoImage
        /\ canvas.display = "none"
        /\ placeholder = "flex"
        /\ downloadBtn.disabled

\* C23: an image is loaded, the download button is enabled, the canvas is
\* shown and the placeholder is hidden, all four or none of them.
C23_ImageControlsAgree ==
    LET loaded == baseImage # NoImage
    IN  /\ loaded <=> ~downloadBtn.disabled
        /\ loaded <=> canvas.display = "block"
        /\ loaded <=> placeholder = "none"

\* C23 witness: after a reset, with a timeout pending, a second image is
\* loaded and shown
C23_Witness ==
    /\ baseImage # NoImage
    /\ ~downloadBtn.disabled
    /\ canvas.display = "block"
    /\ placeholder = "none"
    /\ timers # {}
    /\ imageInput = baseImage
    /\ canvas.width = baseImage.width
    /\ sinceInput.draws = 0
    /\ sinceInput.cancelled

=============================================================================
